---- MODULE Spec2Model ----
(***************************************************************************)
(* Online voting system: election registry, candidate registry, vote      *)
(* ledger and the vote-casting request handler, modelled from the Express  *)
(* route handlers and the Mongoose models.                                 *)
(*                                                                         *)
(* Every `await` on a database call is an interleaving point: a handler    *)
(* that awaits several database calls is a process whose steps are the     *)
(* segments between the awaits.  Time is a clock of ticks; a Date holds a  *)
(* number of ticks, and Date.prototype.toString() keeps whole seconds only.*)
(***************************************************************************)
EXTENDS Integers, Sequences, FiniteSets, TLC

VARIABLES
    now,         \* wall clock, in ticks (new Date(), Date.now())
    elections,   \* elections collection: id -> document or NoDoc
    candidates,  \* candidates collection: id -> document or NoDoc
    voters,      \* voters collection: id -> document or NoDoc
    votes,       \* votes collection, in insertion order
    reqs,        \* POST /api/votes/cast requests in flight
    decl,        \* POST /api/elections/:id/declare-results request in flight
    lastResp,    \* response of the last single-step request that is observed
    admins,      \* admins collection: id -> document or NoDoc
    adm,         \* admin-panel and login requests in flight
    loginLog     \* the answers to the admin login requests, oldest first

vars == <<now, elections, candidates, voters, votes, reqs, decl, lastResp,
          admins, adm, loginLog>>

(***************************************************************************)
(* Bounds of the model                                                     *)
(***************************************************************************)
MaxTime == 4          \* the clock stops here
MaxDate == 4          \* request dates are drawn from 0..MaxDate
MaxAudit == 1         \* audit-log entries per vote
MaxLogins == 7        \* admin login requests that are answered

TicksPerSecond == 3   \* resolution of the clock below Date.toString()'s second

ElectionIds == {"e1", "e2", "e3"}
CandidateIds == {"c1", "c2", "c3", "c4", "c5", "c6"}
VoterIds == {"v1", "v2", "v3"}
AdminIds == {"sa", "ec", "ao"}
ReqIds == {1, 2}      \* cast requests in flight at once
AdmIds == {1, 2}      \* admin-panel and login requests in flight at once

NoDoc == [exists |-> FALSE]
None == "none"
NoDate == -1          \* a Date field that is not set

(***************************************************************************)
(* Admin model: role, permissions, hasPermission                           *)
(***************************************************************************)
AdminRole ==
    [sa |-> "super_admin", ec |-> "election_commissioner", ao |-> "admin_officer"]

AdminPermissions ==
    [sa |-> {"manage_elections", "manage_candidates", "manage_voters",
             "view_results", "manage_admins", "system_settings",
             "audit_logs", "generate_reports"},
     ec |-> {"manage_elections", "manage_candidates", "view_results",
             "generate_reports"},
     ao |-> {"manage_voters", "audit_logs"}]

\* adminSchema defaults, with the role and the permissions given at creation
NewAdmin(role, permissions) ==
    [exists |-> TRUE, role |-> role, permissions |-> permissions,
     isActive |-> TRUE, loginAttempts |-> 0, lockUntil |-> NoDate]

\* adminSchema.methods.hasPermission of the stored admin a
hasPermission(a, permission) ==
    permission \in admins[a].permissions \/ admins[a].role = "super_admin"

\* a role check that every admin passes
IsAnyRole(a) ==
    admins[a].role \in {"super_admin", "election_commissioner",
                        "returning_officer", "admin_officer"}

IsCommissionerOrSuper(a) ==
    ~(admins[a].role # "super_admin" /\ admins[a].role # "election_commissioner")

(***************************************************************************)
(* Election model                                                          *)
(***************************************************************************)
ElectionStatuses == {"upcoming", "registration", "active", "completed", "cancelled"}

\* currentPhase with the registration branch testing now > registrationStartDate
currentPhaseStrictStart(el, t) ==
    IF t < el.registrationStartDate THEN "upcoming"
    ELSE IF t > el.registrationStartDate /\ t <= el.registrationEndDate THEN "registration"
    ELSE IF t >= el.votingStartDate /\ t <= el.votingEndDate THEN "voting"
    ELSE IF t > el.votingEndDate /\ t < el.resultDate THEN "counting"
    ELSE IF t >= el.resultDate THEN "completed"
    ELSE "waiting"

\* electionSchema.virtual('currentPhase') evaluated at time t
currentPhase(el, t) ==
    IF t < el.registrationStartDate THEN "upcoming"
    ELSE IF t >= el.registrationStartDate /\ t <= el.registrationEndDate THEN "registration"
    ELSE IF t >= el.votingStartDate /\ t <= el.votingEndDate THEN "voting"
    ELSE IF t > el.votingEndDate /\ t < el.resultDate THEN "counting"
    ELSE IF t >= el.resultDate THEN "completed"
    ELSE "waiting"

\* electionSchema.methods.isVotingActive evaluated at time t
isVotingActive(el, t) ==
    t >= el.votingStartDate /\ t <= el.votingEndDate /\ el.status = "active"

\* (totalVotesCast / totalRegisteredVoters) * 100; the registered counts of
\* the model divide 100 * cast, so the quotient is exact
TurnoutOf(cast, registered) == (cast * 100) \div registered

\* schema validators of turnoutPercentage: min 0, max 100
TurnoutValid(p) == p >= 0 /\ p <= 100

NewElection(rs, re, vs, ve, rd, st, registered) ==
    [exists |-> TRUE,
     registrationStartDate |-> rs, registrationEndDate |-> re,
     votingStartDate |-> vs, votingEndDate |-> ve, resultDate |-> rd,
     status |-> st,
     totalRegisteredVoters |-> registered, totalVotesCast |-> 0,
     turnoutPercentage |-> 0,
     winner |-> None, isResultDeclared |-> FALSE, resultDeclaredAt |-> None]

(***************************************************************************)
(* Candidate and voter models                                              *)
(***************************************************************************)
NewCandidate(e, approved) ==
    [exists |-> TRUE, election |-> e, politicalParty |-> "p1", isActive |-> TRUE,
     isApproved |-> approved, voteCount |-> 0]

NewVoter(verified) ==
    [exists |-> TRUE, isActive |-> TRUE, isVerified |-> verified,
     hasVoted |-> FALSE, votedElections |-> <<>>]

(***************************************************************************)
(* Vote model                                                              *)
(***************************************************************************)
VoteStatuses == {"valid", "invalid", "disputed", "under_review"}

\* `${date}`: Date.prototype.toString() prints whole seconds, no milliseconds
DateToString(t) == t \div TicksPerSecond

\* `${voter}_${candidate}_${election}_${votedAt}` under sha256; the digest is
\* modelled by its preimage (no collisions)
VoteHashOf(voter, candidate, election, votedAt) ==
    <<voter, candidate, election, DateToString(votedAt)>>

\* the hook hashing Date.now() in place of this.votedAt
PreSaveVoteHookTime(doc, t) ==
    [doc EXCEPT !.voteHash = VoteHashOf(doc.voter, doc.candidate, doc.election, t),
                !.verificationCode = Len(votes) + 1]

\* voteSchema.pre('save') on a new document, the hook running at time t.
\* crypto.randomBytes(16) is modelled by a code no stored vote has.  The
\* voterHash (sha256 of voter, election and Date.now()) is not stored in the
\* model: two votes with one voterHash have one (voter, election) pair, so
\* its unique index rejects nothing the (voter, election) index accepts.
PreSaveVote(doc, t) ==
    [doc EXCEPT !.voteHash = VoteHashOf(doc.voter, doc.candidate, doc.election, doc.votedAt),
                !.verificationCode = Len(votes) + 1]

\* new Vote({voter, election, candidate}) at time t: schema defaults
NewVote(voter, election, candidate, t) ==
    [voter |-> voter, election |-> election, candidate |-> candidate,
     votedAt |-> t, voteHash |-> None,
     verificationCode |-> None, status |-> "valid", auditLog |-> <<>>]

\* voteSchema.methods.verifyIntegrity
verifyIntegrity(v) ==
    v.voteHash = VoteHashOf(v.voter, v.candidate, v.election, v.votedAt)

\* the votes collection without the unique index on (voter, election)
NoUniqueVoterElection(doc) == TRUE

\* the unique indexes of the votes collection
UniqueVoterElection(doc) ==
    \A i \in 1..Len(votes) :
        ~(votes[i].voter = doc.voter /\ votes[i].election = doc.election)

UniqueOtherIndexes(doc) ==
    \A i \in 1..Len(votes) :
        /\ votes[i].voteHash # doc.voteHash
        /\ votes[i].verificationCode # doc.verificationCode

\* Vote.hasVoterVoted: findOne({voter, election})
hasVoterVoted(v, e) ==
    \E i \in 1..Len(votes) : votes[i].voter = v /\ votes[i].election = e

\* Vote.countDocuments for a candidate / an election, any status
VotesForCandidate(c) == Cardinality({i \in 1..Len(votes) : votes[i].candidate = c})
VotesForElection(e) == Cardinality({i \in 1..Len(votes) : votes[i].election = e})

(***************************************************************************)
(* Responses                                                               *)
(***************************************************************************)
Resp(code, message) == [code |-> code, message |-> message]
NoResp == Resp(0, None)
NoLastResp == [op |-> None] @@ NoResp

RespCastOk == Resp(201, "Vote cast successfully")
RespAlreadyVoted == Resp(400, "You have already voted in this election")
RespDuplicateKey == Resp(400, "Duplicate field value entered")
RespValidationError == Resp(400, "ValidationError")
RespNotFoundError == Resp(500, "DocumentNotFoundError")
RespUnauthenticated == Resp(401, "Invalid token or voter account is inactive.")
RespVoterRequired == Resp(403, "Access denied. Voter privileges required.")
RespElectionNotFound == Resp(404, "Election not found")
RespVotingNotActive == Resp(400, "Voting is not currently active for this election")
RespCandidateNotFound == Resp(404, "Candidate not found or not approved for this election")
RespNotVerified == Resp(403, "Your account must be verified to vote")
RespNotActive == Resp(403, "Your account is not active")

(***************************************************************************)
(* POST /api/votes/cast                                                    *)
(***************************************************************************)
IdleReq ==
    [pc |-> "idle", caller |-> None, electionId |-> None, candidateId |-> None,
     user |-> NoDoc, election |-> NoDoc, candidate |-> NoDoc, vote |-> NoDoc,
     resp |-> NoResp]

\* the response is sent and the documents the handler loaded are dropped
Reply(r, resp) ==
    reqs' = [reqs EXCEPT ![r] = [IdleReq EXCEPT !.pc = "done",
                !.caller = reqs[r].caller, !.electionId = reqs[r].electionId,
                !.candidateId = reqs[r].candidateId, !.resp = resp]]

\* the filter without its election field
CandidateEligibleAnyElection(cand, e) ==
    cand.exists /\ cand.isActive /\ cand.isApproved

\* the filter of Candidate.findOne in the cast handler
CandidateEligible(cand, e) ==
    cand.exists /\ cand.election = e /\ cand.isActive /\ cand.isApproved

\* authenticate, requireVoter: the token names a voter or an admin
CastAuthenticate(r, caller, e, c) ==
    /\ reqs[r].pc = "idle"
    /\ \A q \in ReqIds : q < r => reqs[q].pc # "idle"
    /\ IF caller \in AdminIds
         THEN reqs' = [reqs EXCEPT ![r] = [IdleReq EXCEPT !.pc = "done",
                          !.caller = caller, !.electionId = e, !.candidateId = c,
                          !.resp = RespVoterRequired]]
         ELSE IF ~voters[caller].exists \/ ~voters[caller].isActive
         THEN reqs' = [reqs EXCEPT ![r] = [IdleReq EXCEPT !.pc = "done",
                          !.caller = caller, !.electionId = e, !.candidateId = c,
                          !.resp = RespUnauthenticated]]
         ELSE reqs' = [reqs EXCEPT ![r] = [IdleReq EXCEPT !.pc = "findElection",
                          !.caller = caller, !.electionId = e, !.candidateId = c,
                          !.user = voters[caller]]]
    /\ UNCHANGED <<now, elections, candidates, voters, votes, decl, lastResp, admins, adm, loginLog>>

\* Election.findById, then election.isVotingActive()
CastFindElection(r) ==
    /\ reqs[r].pc = "findElection"
    /\ LET el == elections[reqs[r].electionId] IN
         IF ~el.exists THEN Reply(r, RespElectionNotFound)
         ELSE IF ~isVotingActive(el, now) THEN Reply(r, RespVotingNotActive)
         ELSE reqs' = [reqs EXCEPT ![r].pc = "hasVoted", ![r].election = el]
    /\ UNCHANGED <<now, elections, candidates, voters, votes, decl, lastResp, admins, adm, loginLog>>

\* Vote.hasVoterVoted
CastHasVoted(r) ==
    /\ reqs[r].pc = "hasVoted"
    /\ IF hasVoterVoted(reqs[r].caller, reqs[r].electionId)
         THEN Reply(r, RespAlreadyVoted)
         ELSE reqs' = [reqs EXCEPT ![r].pc = "findCandidate"]
    /\ UNCHANGED <<now, elections, candidates, voters, votes, decl, lastResp, admins, adm, loginLog>>

\* Candidate.findOne, the checks of req.user, then new Vote(...) of Vote.create
CastFindCandidate(r) ==
    /\ reqs[r].pc = "findCandidate"
    /\ LET cand == candidates[reqs[r].candidateId] IN
         IF ~CandidateEligible(cand, reqs[r].electionId)
         THEN Reply(r, RespCandidateNotFound)
         ELSE IF ~reqs[r].user.isVerified THEN Reply(r, RespNotVerified)
         ELSE IF ~reqs[r].user.isActive THEN Reply(r, RespNotActive)
         ELSE reqs' = [reqs EXCEPT ![r].pc = "createVote", ![r].candidate = cand,
                          ![r].vote = NewVote(reqs[r].caller, reqs[r].electionId,
                                              reqs[r].candidateId, now)]
    /\ UNCHANGED <<now, elections, candidates, voters, votes, decl, lastResp, admins, adm, loginLog>>

\* the handler with candidate.incrementVote() moved before Vote.create
CastCreateVoteCountFirst(r) ==
    /\ reqs[r].pc = "createVote"
    /\ candidates' = [candidates EXCEPT ![reqs[r].candidateId].voteCount = @ + 1]
    /\ LET doc == PreSaveVote(reqs[r].vote, now) IN
         IF UniqueVoterElection(doc) /\ UniqueOtherIndexes(doc)
         THEN /\ votes' = Append(votes, doc)
              /\ reqs' = [reqs EXCEPT ![r].pc = "updateVoter", ![r].vote = doc]
         ELSE /\ Reply(r, RespDuplicateKey)
              /\ UNCHANGED votes
    /\ UNCHANGED <<now, elections, voters, decl, lastResp, admins, adm, loginLog>>

\* the save of Vote.create: pre('save') hook, then the insert under the
\* unique indexes; a duplicate key (code 11000) goes to errorHandler
CastCreateVote(r) ==
    /\ reqs[r].pc = "createVote"
    /\ LET doc == PreSaveVote(reqs[r].vote, now) IN
         IF UniqueVoterElection(doc) /\ UniqueOtherIndexes(doc)
         THEN /\ votes' = Append(votes, doc)
              /\ reqs' = [reqs EXCEPT ![r].pc = "incrementVote", ![r].vote = doc]
         ELSE /\ Reply(r, RespDuplicateKey)
              /\ UNCHANGED votes
    /\ UNCHANGED <<now, elections, candidates, voters, decl, lastResp, admins, adm, loginLog>>

\* candidate.incrementVote(): this.voteCount += 1 on the loaded document,
\* then save() writes the new value of the modified path
CastIncrementVote(r) ==
    /\ reqs[r].pc = "incrementVote"
    /\ LET c == reqs[r].candidateId IN
         IF ~candidates[c].exists
         THEN /\ Reply(r, RespNotFoundError)
              /\ UNCHANGED candidates
         ELSE /\ candidates' = [candidates EXCEPT
                                   ![c].voteCount = reqs[r].candidate.voteCount + 1]
              /\ reqs' = [reqs EXCEPT ![r].pc = "updateVoter"]
    /\ UNCHANGED <<now, elections, voters, votes, decl, lastResp, admins, adm, loginLog>>

\* Voter.findByIdAndUpdate(voterId, {hasVoted: true, $push: {votedElections}});
\* the votedAt of the pushed entry is not modelled
CastUpdateVoter(r) ==
    /\ reqs[r].pc = "updateVoter"
    /\ LET v == reqs[r].caller IN
         voters' = IF voters[v].exists
                   THEN [voters EXCEPT ![v].hasVoted = TRUE,
                            ![v].votedElections = Append(@, reqs[r].electionId)]
                   ELSE voters
    /\ reqs' = [reqs EXCEPT ![r].pc = "incElection"]
    /\ UNCHANGED <<now, elections, candidates, votes, decl, lastResp, admins, adm, loginLog>>

\* Election.findByIdAndUpdate(electionId, {$inc: {totalVotesCast: 1}})
CastIncElection(r) ==
    /\ reqs[r].pc = "incElection"
    /\ LET e == reqs[r].electionId IN
         elections' = IF elections[e].exists
                      THEN [elections EXCEPT ![e].totalVotesCast = @ + 1]
                      ELSE elections
    /\ reqs' = [reqs EXCEPT ![r].pc = "updateTurnout"]
    /\ UNCHANGED <<now, candidates, voters, votes, decl, lastResp, admins, adm, loginLog>>

\* election.updateTurnout() on the document loaded by CastFindElection
updateTurnout(el) ==
    IF el.totalRegisteredVoters > 0
    THEN [el EXCEPT !.turnoutPercentage =
                        TurnoutOf(el.totalVotesCast, el.totalRegisteredVoters)]
    ELSE el

\* await election.updateTurnout(): save() validates and writes the modified
\* path turnoutPercentage; then the 201 response
CastUpdateTurnout(r) ==
    /\ reqs[r].pc = "updateTurnout"
    /\ LET e == reqs[r].electionId
           el == updateTurnout(reqs[r].election)
           modified == el.turnoutPercentage # reqs[r].election.turnoutPercentage
       IN
         IF ~modified
         THEN /\ Reply(r, RespCastOk)
              /\ UNCHANGED elections
         ELSE IF ~TurnoutValid(el.turnoutPercentage)
         THEN /\ Reply(r, RespValidationError)
              /\ UNCHANGED elections
         ELSE IF ~elections[e].exists
         THEN /\ Reply(r, RespNotFoundError)
              /\ UNCHANGED elections
         ELSE /\ elections' = [elections EXCEPT
                                  ![e].turnoutPercentage = el.turnoutPercentage]
              /\ Reply(r, RespCastOk)
    /\ UNCHANGED <<now, candidates, voters, votes, decl, lastResp, admins, adm, loginLog>>

CastStep(r) ==
    \/ CastFindElection(r)
    \/ CastHasVoted(r)
    \/ CastFindCandidate(r)
    \/ CastCreateVote(r)
    \/ CastIncrementVote(r)
    \/ CastUpdateVoter(r)
    \/ CastIncElection(r)
    \/ CastUpdateTurnout(r)

(***************************************************************************)
(* Middleware of the admin routes                                          *)
(***************************************************************************)
RespAdminInactive == Resp(401, "Invalid token or admin account is inactive.")
RespAdminRequired == Resp(403, "Access denied. Admin privileges required.")

\* authenticate, then requireAdmin, for a token that names caller: the
\* response of the middleware that stops the request, NoResp when none does
AdminGate(caller) ==
    IF caller \in VoterIds
    THEN IF ~voters[caller].exists \/ ~voters[caller].isActive
         THEN RespUnauthenticated
         ELSE RespAdminRequired
    ELSE IF ~admins[caller].exists \/ ~admins[caller].isActive
         THEN RespAdminInactive
         ELSE NoResp

(***************************************************************************)
(* PATCH /api/elections/:id/status                                         *)
(***************************************************************************)
UpdateElectionStatus(a, e, status) ==
    /\ hasPermission(a, "manage_elections")
    /\ status \in ElectionStatuses
    /\ elections[e].exists
    /\ elections' = [elections EXCEPT ![e].status = status]
    /\ UNCHANGED <<now, candidates, voters, votes, reqs, decl, lastResp, admins, adm, loginLog>>

(***************************************************************************)
(* PATCH /api/candidates/:id/approval                                      *)
(***************************************************************************)
UpdateCandidateApproval(a, c, isApproved) ==
    /\ IsCommissionerOrSuper(a)
    /\ candidates[c].exists
    /\ candidates' = [candidates EXCEPT ![c].isApproved = isApproved]
    /\ UNCHANGED <<now, elections, voters, votes, reqs, decl, lastResp, admins, adm, loginLog>>

(***************************************************************************)
(* PATCH /api/votes/:id/status                                             *)
(***************************************************************************)
\* voteSchema.methods.addAuditEntry: push, then save (the entry's timestamp
\* and reason are not modelled)
addAuditEntry(v, action, performedBy) ==
    [v EXCEPT !.auditLog = Append(@, [action |-> action,
                                      performedBy |-> performedBy])]

\* vote.status = status; vote.save(); vote.addAuditEntry(...).  The two saves
\* are taken as one step: between them the stored vote differs from the
\* final one in its audit log only, which no other handler reads.
UpdateVoteStatus(a, i, status) ==
    /\ hasPermission(a, "audit_logs")
    /\ status \in VoteStatuses
    /\ i \in 1..Len(votes)
    /\ Len(votes[i].auditLog) < MaxAudit
    /\ votes' = [votes EXCEPT ![i] =
                    addAuditEntry([votes[i] EXCEPT !.status = status], status, a)]
    /\ UNCHANGED <<now, elections, candidates, voters, reqs, decl, lastResp, admins, adm, loginLog>>

(***************************************************************************)
(* POST /api/elections/:id/declare-results                                 *)
(***************************************************************************)
RespForbiddenDeclare == Resp(403, "Only election commissioner or super admin can declare results")
RespTooEarly == Resp(400, "Cannot declare results before voting ends")
RespNoVotes == Resp(400, "No votes found for this election")
RespDeclared == Resp(200, "Election results declared successfully")

IdleDecl ==
    [pc |-> "idle", admin |-> None, electionId |-> None, election |-> NoDoc,
     resp |-> NoResp]

\* the guard comparing with votingStartDate
DeclareBeforeVotingStarts(el, t) == el.status # "completed" /\ t < el.votingStartDate

\* the guard of the 400 "Cannot declare results before voting ends"
DeclareTooEarly(el, t) == el.status # "completed" /\ t < el.votingEndDate

\* Vote.getElectionResults: valid votes of the election grouped by candidate,
\* joined with the candidates collection ($lookup, $unwind)
ResultCount(e, c) ==
    Cardinality({i \in 1..Len(votes) :
        votes[i].election = e /\ votes[i].status = "valid" /\ votes[i].candidate = c})

ResultCandidates(e) ==
    {c \in CandidateIds : ResultCount(e, c) > 0 /\ candidates[c].exists}

\* results[0] after a sort in ascending order
BottomCandidates(e) ==
    {c \in ResultCandidates(e) :
        \A d \in ResultCandidates(e) : ResultCount(e, c) <= ResultCount(e, d)}

\* results[0] after $sort {voteCount: -1}: any candidate with the top count
TopCandidates(e) ==
    {c \in ResultCandidates(e) :
        \A d \in ResultCandidates(e) : ResultCount(e, c) >= ResultCount(e, d)}

\* authenticate, requireAdmin, role check, Election.findById, the voting-end
\* check; a is the voter or the admin that the token names
DeclareStart(a, e) ==
    /\ decl.pc = "idle"
    /\ LET req == [IdleDecl EXCEPT !.admin = a, !.electionId = e] IN
         IF AdminGate(a) # NoResp
         THEN decl' = [req EXCEPT !.pc = "done", !.resp = AdminGate(a)]
         ELSE IF ~IsCommissionerOrSuper(a)
         THEN decl' = [req EXCEPT !.pc = "done", !.resp = RespForbiddenDeclare]
         ELSE IF ~elections[e].exists
         THEN decl' = [req EXCEPT !.pc = "done", !.resp = RespElectionNotFound]
         ELSE IF DeclareTooEarly(elections[e], now)
         THEN decl' = [req EXCEPT !.pc = "done", !.resp = RespTooEarly]
         ELSE decl' = [req EXCEPT !.pc = "results", !.election = elections[e]]
    /\ UNCHANGED <<now, elections, candidates, voters, votes, reqs, lastResp, admins, adm, loginLog>>

\* Vote.getElectionResults, then the assignments to the loaded election
DeclareResults ==
    /\ decl.pc = "results"
    /\ IF ResultCandidates(decl.electionId) = {}
         THEN decl' = [decl EXCEPT !.pc = "done", !.resp = RespNoVotes]
         ELSE \E w \in TopCandidates(decl.electionId) :
                decl' = [decl EXCEPT !.pc = "save",
                            !.election = [decl.election EXCEPT
                                !.isResultDeclared = TRUE,
                                !.resultDeclaredAt = now,
                                !.winner = w,
                                !.status = "completed"]]
    /\ UNCHANGED <<now, elections, candidates, voters, votes, reqs, lastResp, admins, adm, loginLog>>

\* election.save(): writes the four assigned paths
DeclareSave ==
    /\ decl.pc = "save"
    /\ elections' = [elections EXCEPT
            ![decl.electionId].isResultDeclared = decl.election.isResultDeclared,
            ![decl.electionId].resultDeclaredAt = decl.election.resultDeclaredAt,
            ![decl.electionId].winner = decl.election.winner,
            ![decl.electionId].status = decl.election.status]
    /\ decl' = [decl EXCEPT !.pc = "done", !.resp = RespDeclared]
    /\ UNCHANGED <<now, candidates, voters, votes, reqs, lastResp, admins, adm, loginLog>>

\* the response is sent; the next declare request can arrive
DeclareFinish ==
    /\ decl.pc = "done"
    /\ decl' = IdleDecl
    /\ UNCHANGED <<now, elections, candidates, voters, votes, reqs, lastResp, admins, adm, loginLog>>

(***************************************************************************)
(* POST /api/elections                                                     *)
(***************************************************************************)
\* the checks with > in place of >= between the registration and the voting
\* period and between the voting period and the result date
DateSequenceErrorLax(rs, re, vs, ve, rd) ==
    IF rs >= re THEN "Registration end date must be after start date"
    ELSE IF vs >= ve THEN "Voting end date must be after start date"
    ELSE IF re > vs THEN "Voting must start after registration ends"
    ELSE IF ve > rd THEN "Result date must be after voting ends"
    ELSE None

\* the date sequence checks, in the handler's order: the message of the
\* first check that fails, or None
DateSequenceError(rs, re, vs, ve, rd) ==
    IF rs >= re THEN "Registration end date must be after start date"
    ELSE IF vs >= ve THEN "Voting end date must be after start date"
    ELSE IF re >= vs THEN "Voting must start after registration ends"
    ELSE IF ve >= rd THEN "Result date must be after voting ends"
    ELSE None

\* the _id of the next document of the elections collection
FreeElectionIds == {e \in ElectionIds : ~elections[e].exists}
NextElectionId ==
    CHOOSE e \in FreeElectionIds : \A f \in FreeElectionIds : e = f \/ e < f

\* a request with the token of a (a voter or an admin) whose body is well
\* formed and holds the five dates: authenticate, requireAdmin, the handler;
\* the client sends it once it has read the previous response
CreateElection(a, rs, re, vs, ve, rd) ==
    /\ lastResp = NoLastResp
    /\ FreeElectionIds # {}
    /\ LET req == [op |-> "createElection", admin |-> a,
                   dates |-> <<rs, re, vs, ve, rd>>]
           err == DateSequenceError(rs, re, vs, ve, rd)
       IN
         IF AdminGate(a) # NoResp
         THEN /\ lastResp' = req @@ AdminGate(a)
              /\ UNCHANGED elections
         ELSE IF ~IsCommissionerOrSuper(a)
         THEN /\ lastResp' = req @@
                    Resp(403, "Only election commissioner or super admin can create elections")
              /\ UNCHANGED elections
         ELSE IF err # None
         THEN /\ lastResp' = req @@ Resp(400, err)
              /\ UNCHANGED elections
         ELSE /\ elections' = [elections EXCEPT ![NextElectionId] =
                    NewElection(rs, re, vs, ve, rd,
                                IF rs > now THEN "upcoming" ELSE "registration", 0)]
              /\ lastResp' = req @@ Resp(201, "Election created successfully")
    /\ UNCHANGED <<now, candidates, voters, votes, reqs, decl, admins, adm, loginLog>>

(***************************************************************************)
(* GET /api/elections/:id                                                  *)
(***************************************************************************)
GetElection(e) ==
    /\ lastResp' =
         IF ~elections[e].exists
         THEN [op |-> "getElection", id |-> e, currentPhase |-> None]
                  @@ RespElectionNotFound
         ELSE [op |-> "getElection", id |-> e,
               currentPhase |-> currentPhase(elections[e], now)] @@ Resp(200, None)
    /\ UNCHANGED <<now, elections, candidates, voters, votes, reqs, decl, admins, adm, loginLog>>

(***************************************************************************)
(* GET /api/elections/:id/results                                          *)
(***************************************************************************)
RespNotYetAvailable == Resp(403, "Results not yet available")

\* the guard comparing with votingEndDate
ResultsHiddenWhileVoting(el, t) == t < el.votingEndDate /\ ~el.isResultDeclared

\* the guard of the 403 "Results not yet available"
ResultsNotYetAvailable(el, t) == t < el.resultDate /\ ~el.isResultDeclared

\* a public request, sent once the client has read the previous response.
\* Election.findById and the check, then Vote.getElectionResults and
\* Vote.countVotesForElection; the response carries the per-candidate
\* counts (results) and the number of valid votes (totalVotes).
GetResults(e) ==
    /\ lastResp = NoLastResp
    /\ LET req == [op |-> "getResults", id |-> e] IN
         lastResp' =
            IF ~elections[e].exists
            THEN req @@ [results |-> {}, totalVotes |-> 0] @@ RespElectionNotFound
            ELSE IF ResultsNotYetAvailable(elections[e], now)
            THEN req @@ [results |-> {}, totalVotes |-> 0] @@ RespNotYetAvailable
            ELSE req @@
                 [results |-> {[candidate |-> c, voteCount |-> ResultCount(e, c)] :
                                    c \in ResultCandidates(e)},
                  totalVotes |-> Cardinality({i \in 1..Len(votes) :
                        votes[i].election = e /\ votes[i].status = "valid"})]
                 @@ Resp(200, None)
    /\ UNCHANGED <<now, elections, candidates, voters, votes, reqs, decl, admins, adm, loginLog>>

\* the client reads the response
Respond ==
    /\ lastResp # NoLastResp
    /\ lastResp' = NoLastResp
    /\ UNCHANGED <<now, elections, candidates, voters, votes, reqs, decl, admins, adm, loginLog>>

\* the wall clock advances
Tick ==
    /\ now < MaxTime
    /\ now' = now + 1
    /\ UNCHANGED <<elections, candidates, voters, votes, reqs, decl, lastResp, admins, adm, loginLog>>

(***************************************************************************)
(* Public reads of elections and candidates                                *)
(***************************************************************************)
RespPublicCandidateNotFound == Resp(404, "Candidate not found")

\* fullName of the candidates, in ascending order
CandidateNames == <<"c1", "c2", "c3", "c4", "c5", "c6">>

NameIndex(c) == CHOOSE i \in 1..Len(CandidateNames) : CandidateNames[i] = c

\* populate('election', 'title type votingStartDate votingEndDate status')
PopulatedElection(els, e) ==
    IF els[e].exists
    THEN [id |-> e, votingStartDate |-> els[e].votingStartDate,
          votingEndDate |-> els[e].votingEndDate, status |-> els[e].status]
    ELSE NoDoc

\* a candidate document as res.json sends it: every stored path, the
\* election populated
CandidateJson(els, cands, c) ==
    [id |-> c, election |-> PopulatedElection(els, cands[c].election),
     politicalParty |-> cands[c].politicalParty, isActive |-> cands[c].isActive,
     isApproved |-> cands[c].isApproved, voteCount |-> cands[c].voteCount]

\* election.toObject() with the currentPhase virtual
ElectionJson(els, e, t) ==
    [id |-> e, currentPhase |-> currentPhase(els[e], t)] @@ els[e]

\* the query of an unauthenticated request: active and approved candidates,
\* of election e when the request names one
PublicCandidates(cands, e) ==
    {c \in CandidateIds : /\ cands[c].exists
                          /\ cands[c].isActive
                          /\ cands[c].isApproved
                          /\ (e # None => cands[c].election = e)}

\* position of c after sort({ voteCount: -1, fullName: 1 })
SortRank(cands, S, c) ==
    1 + Cardinality({d \in S :
            \/ cands[d].voteCount > cands[c].voteCount
            \/ /\ cands[d].voteCount = cands[c].voteCount
               /\ NameIndex(d) < NameIndex(c)})

\* GET /api/elections: the stored elections with their phase; the listed
\* elections start on the same day, so the sort leaves their order open and
\* the page is modelled as a set
ElectionListData(els, t) ==
    {ElectionJson(els, e, t) : e \in {x \in ElectionIds : els[x].exists}}

\* GET /api/elections/:id: the election with its phase and its approved
\* candidates, select('fullName politicalParty profilePhoto voteCount')
ElectionByIdData(els, cands, e, t) ==
    [election |-> ElectionJson(els, e, t),
     candidates |-> {[id |-> c, politicalParty |-> cands[c].politicalParty,
                      voteCount |-> cands[c].voteCount] :
                            c \in PublicCandidates(cands, e)}]

\* GET /api/candidates[?election=e]: the first page, in sorted order
CandidateListData(els, cands, e) ==
    LET S == PublicCandidates(cands, e)
    IN  [i \in 1..Cardinality(S) |->
            CandidateJson(els, cands, CHOOSE c \in S : SortRank(cands, S, c) = i)]

\* GET /api/candidates/election/:electionId: Candidate.findByElection
CandidatesByElectionData(els, cands, e) ==
    {CandidateJson(els, cands, c) : c \in PublicCandidates(cands, e)}

\* the response of the unauthenticated read req = [op, id], computed from the
\* elections and candidates collections at time t
PublicRead(req, els, cands, t) ==
    IF req.op = "getElections"
    THEN req @@ [data |-> ElectionListData(els, t)] @@ Resp(200, None)
    ELSE IF req.op = "getElection"
    THEN IF ~els[req.id].exists
         THEN req @@ [data |-> None] @@ RespElectionNotFound
         ELSE req @@ [data |-> ElectionByIdData(els, cands, req.id, t)]
                  @@ Resp(200, None)
    ELSE IF req.op = "getCandidates"
    THEN req @@ [data |-> CandidateListData(els, cands, req.id)] @@ Resp(200, None)
    ELSE IF req.op = "getCandidatesByElection"
    THEN req @@ [data |-> CandidatesByElectionData(els, cands, req.id)]
             @@ Resp(200, None)
    ELSE IF req.id \notin PublicCandidates(cands, None)
    THEN req @@ [data |-> None] @@ RespPublicCandidateNotFound
    ELSE req @@ [data |-> CandidateJson(els, cands, req.id)] @@ Resp(200, None)

\* a public request without a token, sent once the client has read the
\* previous response
GetPublic(op, id) ==
    /\ lastResp = NoLastResp
    /\ lastResp' = PublicRead([op |-> op, id |-> id], elections, candidates, now)
    /\ UNCHANGED <<now, elections, candidates, voters, votes, reqs, decl, admins, adm, loginLog>>

(***************************************************************************)
(* Admin-panel and login requests                                          *)
(***************************************************************************)
IdleAdm ==
    [pc |-> "idle", op |-> None, caller |-> None, target |-> None,
     body |-> None, doc |-> NoDoc, resp |-> NoResp]

\* requirePermission(permission) of an authenticated admin
RespNoPermission == Resp(403, "Access denied. Insufficient permissions.")

\* the response of an admin-panel request is sent; the slot is free again
AdmFinish(k) ==
    /\ adm[k].pc = "done"
    /\ adm' = [adm EXCEPT ![k] = IdleAdm]
    /\ UNCHANGED <<now, elections, candidates, voters, votes, reqs, decl, lastResp, admins, loginLog>>

(***************************************************************************)
(* PUT /api/elections/:id                                                  *)
(***************************************************************************)
DateFields ==
    {"registrationStartDate", "registrationEndDate", "votingStartDate",
     "votingEndDate", "resultDate"}

RespCannotModify == Resp(400, "Cannot modify election after voting has started")
RespElectionUpdated == Resp(200, "Election updated successfully")

\* the document with the fields of updates set
ApplyUpdates(doc, updates) ==
    [f \in DOMAIN doc |-> IF f \in DOMAIN updates THEN updates[f] ELSE doc[f]]

\* authenticate, requireAdmin, requirePermission('manage_elections'),
\* Election.findById and the status check; body holds some of the five
\* dates (the other allowed fields are not modelled)
UpdateElectionFind(k, caller, e, body) ==
    /\ adm[k].pc = "idle"
    /\ DOMAIN body \subseteq DateFields
    /\ LET req == [IdleAdm EXCEPT !.op = "updateElection", !.caller = caller,
                                  !.target = e, !.body = body]
           answer(resp) == adm' = [adm EXCEPT ![k] =
                                [req EXCEPT !.pc = "done", !.resp = resp]]
       IN
         IF AdminGate(caller) # NoResp THEN answer(AdminGate(caller))
         ELSE IF ~hasPermission(caller, "manage_elections")
         THEN answer(RespNoPermission)
         ELSE IF ~elections[e].exists THEN answer(RespElectionNotFound)
         ELSE IF elections[e].status = "active" \/ elections[e].status = "completed"
         THEN answer(RespCannotModify)
         ELSE adm' = [adm EXCEPT ![k] =
                        [req EXCEPT !.pc = "findByIdAndUpdate", !.doc = elections[e]]]
    /\ UNCHANGED <<now, elections, candidates, voters, votes, reqs, decl, lastResp, admins, loginLog>>

\* Election.findByIdAndUpdate(id, updates): sets the fields of updates on
\* the stored election, if it still exists; 200 in both cases
UpdateElectionWrite(k) ==
    /\ adm[k].pc = "findByIdAndUpdate"
    /\ adm[k].op = "updateElection"
    /\ elections' =
         IF elections[adm[k].target].exists
         THEN [elections EXCEPT ![adm[k].target] = ApplyUpdates(@, adm[k].body)]
         ELSE elections
    /\ adm' = [adm EXCEPT ![k].pc = "done", ![k].resp = RespElectionUpdated]
    /\ UNCHANGED <<now, candidates, voters, votes, reqs, decl, lastResp, admins, loginLog>>

(***************************************************************************)
(* POST /api/candidates                                                    *)
(***************************************************************************)
RespCandidateMissing == Resp(404, "Candidate not found")
RespCandidateCreated == Resp(201, "Candidate created successfully")

\* the fields of body that are in the set fields
Restrict(body, fields) == [f \in DOMAIN body \cap fields |-> body[f]]

\* the _id of the next document of the candidates collection: an id that no
\* document has had (c6 is never deleted once created)
FreeCandidateIds == {c \in {"c6"} : ~candidates[c].exists}
NextCandidateId == CHOOSE c \in FreeCandidateIds : TRUE

\* the document with isApproved taken from the body when the body has it
CandidateDocBodyLast(caller, body) ==
    ApplyUpdates(NewCandidate(body.election, IsCommissionerOrSuper(caller)),
                 Restrict(body, {"politicalParty", "isActive", "isApproved", "voteCount"}))

\* the document of Candidate.create({...req.body, nominatedBy, isApproved}):
\* the schema defaults, the fields of the body, then isApproved by the role
\* of the caller
CandidateDoc(caller, body) ==
    [ApplyUpdates(NewCandidate(body.election, FALSE),
                  Restrict(body, {"politicalParty", "isActive", "voteCount"}))
        EXCEPT !.isApproved = IsCommissionerOrSuper(caller)]

\* authenticate, requireAdmin, requirePermission('manage_candidates'), the
\* election lookup, Candidate.create with the schema validator of voteCount
\* (min 0); the duplicate-name check and the $inc of totalCandidates are on
\* fields the model does not hold
CreateCandidate(k, caller, body) ==
    /\ adm[k].pc = "idle"
    /\ FreeCandidateIds # {}
    /\ LET req == [IdleAdm EXCEPT !.op = "createCandidate", !.caller = caller,
                                  !.target = NextCandidateId, !.body = body]
           answer(resp) == adm' = [adm EXCEPT ![k] =
                                [req EXCEPT !.pc = "done", !.resp = resp]]
       IN
         IF AdminGate(caller) # NoResp
         THEN answer(AdminGate(caller)) /\ UNCHANGED candidates
         ELSE IF ~hasPermission(caller, "manage_candidates")
         THEN answer(RespNoPermission) /\ UNCHANGED candidates
         ELSE IF ~elections[body.election].exists
         THEN answer(RespElectionNotFound) /\ UNCHANGED candidates
         ELSE IF CandidateDoc(caller, body).voteCount < 0
         THEN answer(RespValidationError) /\ UNCHANGED candidates
         ELSE /\ candidates' = [candidates EXCEPT
                                   ![NextCandidateId] = CandidateDoc(caller, body)]
              /\ answer(RespCandidateCreated)
    /\ UNCHANGED <<now, elections, voters, votes, reqs, decl, lastResp, admins, loginLog>>

(***************************************************************************)
(* PUT /api/candidates/:id                                                 *)
(***************************************************************************)
RespCannotModifyCandidate ==
    Resp(400, "Cannot modify candidate details after voting has started")
RespCandidateUpdated == Resp(200, "Candidate updated successfully")

\* allowedUpdates, of which the model holds politicalParty
AllowedCandidateUpdates == {"politicalParty"}

\* authenticate, requireAdmin, requirePermission('manage_candidates'),
\* Candidate.findById; the election is looked up only if the body has an
\* election field
UpdateCandidateFind(k, caller, c, body) ==
    /\ adm[k].pc = "idle"
    /\ LET req == [IdleAdm EXCEPT !.op = "updateCandidate", !.caller = caller,
                                  !.target = c, !.body = body]
           answer(resp) == adm' = [adm EXCEPT ![k] =
                                [req EXCEPT !.pc = "done", !.resp = resp]]
       IN
         IF AdminGate(caller) # NoResp THEN answer(AdminGate(caller))
         ELSE IF ~hasPermission(caller, "manage_candidates")
         THEN answer(RespNoPermission)
         ELSE IF ~candidates[c].exists THEN answer(RespCandidateMissing)
         ELSE IF "election" \in DOMAIN body
         THEN adm' = [adm EXCEPT ![k] =
                        [req EXCEPT !.pc = "findElection", !.doc = candidates[c]]]
         ELSE adm' = [adm EXCEPT ![k] =
                        [req EXCEPT !.pc = "findByIdAndUpdate", !.doc = candidates[c]]]
    /\ UNCHANGED <<now, elections, candidates, voters, votes, reqs, decl, lastResp, admins, loginLog>>

\* Election.findById(candidate.election) and election.isVotingActive()
UpdateCandidateCheck(k) ==
    /\ adm[k].pc = "findElection"
    /\ adm[k].op = "updateCandidate"
    /\ LET el == elections[adm[k].doc.election] IN
         IF el.exists /\ isVotingActive(el, now)
         THEN adm' = [adm EXCEPT ![k].pc = "done",
                                 ![k].resp = RespCannotModifyCandidate]
         ELSE adm' = [adm EXCEPT ![k].pc = "findByIdAndUpdate"]
    /\ UNCHANGED <<now, elections, candidates, voters, votes, reqs, decl, lastResp, admins, loginLog>>

\* Candidate.findByIdAndUpdate(id, updates) with the allowed fields of the
\* body; 200 also when the candidate is gone
UpdateCandidateWrite(k) ==
    /\ adm[k].pc = "findByIdAndUpdate"
    /\ adm[k].op = "updateCandidate"
    /\ candidates' =
         IF candidates[adm[k].target].exists
         THEN [candidates EXCEPT ![adm[k].target] =
                  ApplyUpdates(@, Restrict(adm[k].body, AllowedCandidateUpdates))]
         ELSE candidates
    /\ adm' = [adm EXCEPT ![k].pc = "done", ![k].resp = RespCandidateUpdated]
    /\ UNCHANGED <<now, elections, voters, votes, reqs, decl, lastResp, admins, loginLog>>

(***************************************************************************)
(* PATCH /api/candidates/:id/approval, as a request with its response      *)
(***************************************************************************)
RespForbiddenApproval ==
    Resp(403, "Only election commissioner or super admin can approve candidates")
RespApprovalUpdated(isApproved) ==
    Resp(200, IF isApproved THEN "Candidate approved successfully"
              ELSE "Candidate rejected successfully")

\* authenticate, requireAdmin, the role check, Candidate.findByIdAndUpdate
ApproveCandidate(k, caller, c, isApproved) ==
    /\ adm[k].pc = "idle"
    /\ LET req == [IdleAdm EXCEPT !.op = "approveCandidate", !.caller = caller,
                                  !.target = c, !.body = [isApproved |-> isApproved]]
           answer(resp) == adm' = [adm EXCEPT ![k] =
                                [req EXCEPT !.pc = "done", !.resp = resp]]
       IN
         IF AdminGate(caller) # NoResp
         THEN answer(AdminGate(caller)) /\ UNCHANGED candidates
         ELSE IF ~IsCommissionerOrSuper(caller)
         THEN answer(RespForbiddenApproval) /\ UNCHANGED candidates
         ELSE IF ~candidates[c].exists
         THEN answer(RespCandidateMissing) /\ UNCHANGED candidates
         ELSE /\ candidates' = [candidates EXCEPT ![c].isApproved = isApproved]
              /\ answer(RespApprovalUpdated(isApproved))
    /\ UNCHANGED <<now, elections, voters, votes, reqs, decl, lastResp, admins, loginLog>>

(***************************************************************************)
(* DELETE /api/candidates/:id                                              *)
(***************************************************************************)
RespCannotDeleteCandidate == Resp(400, "Cannot delete candidate after voting has started")
RespCandidateDeactivated ==
    Resp(200, "Candidate deactivated successfully (had received votes)")
RespCandidateDeleted == Resp(200, "Candidate deleted successfully")

\* authenticate, requireAdmin, requirePermission('manage_candidates'),
\* Candidate.findById
DeleteCandidateFind(k, caller, c) ==
    /\ adm[k].pc = "idle"
    /\ LET req == [IdleAdm EXCEPT !.op = "deleteCandidate", !.caller = caller,
                                  !.target = c]
           answer(resp) == adm' = [adm EXCEPT ![k] =
                                [req EXCEPT !.pc = "done", !.resp = resp]]
       IN
         IF AdminGate(caller) # NoResp THEN answer(AdminGate(caller))
         ELSE IF ~hasPermission(caller, "manage_candidates")
         THEN answer(RespNoPermission)
         ELSE IF ~candidates[c].exists THEN answer(RespCandidateMissing)
         ELSE adm' = [adm EXCEPT ![k] =
                        [req EXCEPT !.pc = "findElection", !.doc = candidates[c]]]
    /\ UNCHANGED <<now, elections, candidates, voters, votes, reqs, decl, lastResp, admins, loginLog>>

\* Election.findById(candidate.election), election.isVotingActive(), then
\* the voteCount of the loaded candidate chooses between the two writes
DeleteCandidateCheck(k) ==
    /\ adm[k].pc = "findElection"
    /\ adm[k].op = "deleteCandidate"
    /\ LET el == elections[adm[k].doc.election] IN
         IF el.exists /\ isVotingActive(el, now)
         THEN adm' = [adm EXCEPT ![k].pc = "done",
                                 ![k].resp = RespCannotDeleteCandidate]
         ELSE IF adm[k].doc.voteCount > 0
         THEN adm' = [adm EXCEPT ![k].pc = "save", ![k].doc.isActive = FALSE]
         ELSE adm' = [adm EXCEPT ![k].pc = "findByIdAndDelete"]
    /\ UNCHANGED <<now, elections, candidates, voters, votes, reqs, decl, lastResp, admins, loginLog>>

\* candidate.save(): writes the modified path isActive
DeleteCandidateSave(k) ==
    /\ adm[k].pc = "save"
    /\ adm[k].op = "deleteCandidate"
    /\ LET c == adm[k].target IN
         IF ~candidates[c].exists
         THEN /\ adm' = [adm EXCEPT ![k].pc = "done", ![k].resp = RespNotFoundError]
              /\ UNCHANGED candidates
         ELSE /\ candidates' = [candidates EXCEPT ![c].isActive = FALSE]
              /\ adm' = [adm EXCEPT ![k].pc = "done",
                                     ![k].resp = RespCandidateDeactivated]
    /\ UNCHANGED <<now, elections, voters, votes, reqs, decl, lastResp, admins, loginLog>>

\* Candidate.findByIdAndDelete; the $inc of the election's totalCandidates,
\* a field the model does not hold, follows
DeleteCandidateRemove(k) ==
    /\ adm[k].pc = "findByIdAndDelete"
    /\ adm[k].op = "deleteCandidate"
    /\ candidates' = [candidates EXCEPT ![adm[k].target] = NoDoc]
    /\ adm' = [adm EXCEPT ![k].pc = "done", ![k].resp = RespCandidateDeleted]
    /\ UNCHANGED <<now, elections, voters, votes, reqs, decl, lastResp, admins, loginLog>>

(***************************************************************************)
(* DELETE /api/voters/:id                                                  *)
(***************************************************************************)
RespForbiddenDeleteVoter ==
    Resp(403, "Only super admin or election commissioner can delete voter accounts")
RespVoterNotFound == Resp(404, "Voter not found")
RespVoterHasVoted ==
    Resp(400, "Cannot delete voter account that has cast votes. Deactivate instead.")
RespVoterDeleted == Resp(200, "Voter account deleted successfully")

\* authenticate, requireAdmin, the role check, Voter.findById and the
\* hasVoted check
DeleteVoterFind(k, caller, v) ==
    /\ adm[k].pc = "idle"
    /\ LET req == [IdleAdm EXCEPT !.op = "deleteVoter", !.caller = caller,
                                  !.target = v]
           answer(resp) == adm' = [adm EXCEPT ![k] =
                                [req EXCEPT !.pc = "done", !.resp = resp]]
       IN
         IF AdminGate(caller) # NoResp THEN answer(AdminGate(caller))
         ELSE IF ~IsCommissionerOrSuper(caller)
         THEN answer(RespForbiddenDeleteVoter)
         ELSE IF ~voters[v].exists THEN answer(RespVoterNotFound)
         ELSE IF voters[v].hasVoted THEN answer(RespVoterHasVoted)
         ELSE adm' = [adm EXCEPT ![k] =
                        [req EXCEPT !.pc = "findByIdAndDelete", !.doc = voters[v]]]
    /\ UNCHANGED <<now, elections, candidates, voters, votes, reqs, decl, lastResp, admins, loginLog>>

\* Voter.findByIdAndDelete
DeleteVoterRemove(k) ==
    /\ adm[k].pc = "findByIdAndDelete"
    /\ adm[k].op = "deleteVoter"
    /\ voters' = [voters EXCEPT ![adm[k].target] = NoDoc]
    /\ adm' = [adm EXCEPT ![k].pc = "done", ![k].resp = RespVoterDeleted]
    /\ UNCHANGED <<now, elections, candidates, votes, reqs, decl, lastResp, admins, loginLog>>

(***************************************************************************)
(* PUT and DELETE /api/admin/admins/:id                                    *)
(***************************************************************************)
RespRoleRequired == Resp(403, "Access denied. Insufficient role.")
RespAdminNotFound == Resp(404, "Admin not found")
RespCannotModifySuper == Resp(403, "Cannot modify super admin account")
RespAdminUpdated == Resp(200, "Admin updated successfully")
RespCannotDeleteSuper == Resp(403, "Cannot delete super admin account")
RespCannotDeleteSelf == Resp(403, "Cannot delete your own account")
RespAdminDeleted == Resp(200, "Admin deleted successfully")

\* authenticate, requireAdmin, requireRole('super_admin'), Admin.findById
\* and the super admin check; body holds role or isActive (the other
\* allowed fields are not modelled)
UpdateAdminFind(k, caller, t, body) ==
    /\ adm[k].pc = "idle"
    /\ DOMAIN body \subseteq {"role", "permissions", "isActive"}
    /\ LET req == [IdleAdm EXCEPT !.op = "updateAdmin", !.caller = caller,
                                  !.target = t, !.body = body]
           answer(resp) == adm' = [adm EXCEPT ![k] =
                                [req EXCEPT !.pc = "done", !.resp = resp]]
       IN
         IF AdminGate(caller) # NoResp THEN answer(AdminGate(caller))
         ELSE IF admins[caller].role # "super_admin" THEN answer(RespRoleRequired)
         ELSE IF ~admins[t].exists THEN answer(RespAdminNotFound)
         ELSE IF admins[t].role = "super_admin" /\ t # caller
         THEN answer(RespCannotModifySuper)
         ELSE adm' = [adm EXCEPT ![k] =
                        [req EXCEPT !.pc = "findByIdAndUpdate", !.doc = admins[t]]]
    /\ UNCHANGED <<now, elections, candidates, voters, votes, reqs, decl, lastResp, admins, loginLog>>

\* Admin.findByIdAndUpdate(id, updates)
UpdateAdminWrite(k) ==
    /\ adm[k].pc = "findByIdAndUpdate"
    /\ adm[k].op = "updateAdmin"
    /\ admins' =
         IF admins[adm[k].target].exists
         THEN [admins EXCEPT ![adm[k].target] = ApplyUpdates(@, adm[k].body)]
         ELSE admins
    /\ adm' = [adm EXCEPT ![k].pc = "done", ![k].resp = RespAdminUpdated]
    /\ UNCHANGED <<now, elections, candidates, voters, votes, reqs, decl, lastResp, loginLog>>

\* authenticate, requireAdmin, requireRole('super_admin'), Admin.findById,
\* the super admin check and the self check
DeleteAdminFind(k, caller, t) ==
    /\ adm[k].pc = "idle"
    /\ LET req == [IdleAdm EXCEPT !.op = "deleteAdmin", !.caller = caller,
                                  !.target = t]
           answer(resp) == adm' = [adm EXCEPT ![k] =
                                [req EXCEPT !.pc = "done", !.resp = resp]]
       IN
         IF AdminGate(caller) # NoResp THEN answer(AdminGate(caller))
         ELSE IF admins[caller].role # "super_admin" THEN answer(RespRoleRequired)
         ELSE IF ~admins[t].exists THEN answer(RespAdminNotFound)
         ELSE IF admins[t].role = "super_admin" THEN answer(RespCannotDeleteSuper)
         ELSE IF t = caller THEN answer(RespCannotDeleteSelf)
         ELSE adm' = [adm EXCEPT ![k] =
                        [req EXCEPT !.pc = "findByIdAndDelete", !.doc = admins[t]]]
    /\ UNCHANGED <<now, elections, candidates, voters, votes, reqs, decl, lastResp, admins, loginLog>>

\* Admin.findByIdAndDelete
DeleteAdminRemove(k) ==
    /\ adm[k].pc = "findByIdAndDelete"
    /\ adm[k].op = "deleteAdmin"
    /\ admins' = [admins EXCEPT ![adm[k].target] = NoDoc]
    /\ adm' = [adm EXCEPT ![k].pc = "done", ![k].resp = RespAdminDeleted]
    /\ UNCHANGED <<now, elections, candidates, voters, votes, reqs, decl, lastResp, loginLog>>

(***************************************************************************)
(* PATCH /api/votes/:id/status, save by save                               *)
(***************************************************************************)
RespVoteNotFound == Resp(404, "Vote not found")
RespVoteStatusUpdated == Resp(200, "Vote status updated successfully")

\* authenticate, requireAdmin, requirePermission('audit_logs'), the body
\* validator of status, Vote.findById(i)
PatchVoteFind(k, caller, i, status) ==
    /\ adm[k].pc = "idle"
    /\ status \in VoteStatuses
    /\ i \in 1..Len(votes) => Len(votes[i].auditLog) <= MaxAudit
    /\ LET req == [IdleAdm EXCEPT !.op = "patchVote", !.caller = caller,
                                  !.target = i, !.body = [status |-> status]]
           answer(resp) == adm' = [adm EXCEPT ![k] =
                                [req EXCEPT !.pc = "done", !.resp = resp]]
       IN
         IF AdminGate(caller) # NoResp THEN answer(AdminGate(caller))
         ELSE IF ~hasPermission(caller, "audit_logs") THEN answer(RespNoPermission)
         ELSE IF i \notin 1..Len(votes) THEN answer(RespVoteNotFound)
         ELSE adm' = [adm EXCEPT ![k] = [req EXCEPT !.pc = "save", !.doc = votes[i]]]
    /\ UNCHANGED <<now, elections, candidates, voters, votes, reqs, decl, lastResp, admins, loginLog>>

\* a save that writes the whole loaded document
PatchVoteSaveDocument(k) ==
    /\ adm[k].pc = "save"
    /\ adm[k].op = "patchVote"
    /\ votes' = [votes EXCEPT ![adm[k].target] =
                    [adm[k].doc EXCEPT !.status = adm[k].body.status]]
    /\ adm' = [adm EXCEPT ![k].pc = "addAuditEntry"]
    /\ UNCHANGED <<now, elections, candidates, voters, reqs, decl, lastResp, admins, loginLog>>

\* vote.status = status; vote.save(): writes the modified path status (the
\* pre('save') hook does nothing for a document that is not new)
PatchVoteSave(k) ==
    /\ adm[k].pc = "save"
    /\ adm[k].op = "patchVote"
    /\ votes' = [votes EXCEPT ![adm[k].target].status = adm[k].body.status]
    /\ adm' = [adm EXCEPT ![k].pc = "addAuditEntry"]
    /\ UNCHANGED <<now, elections, candidates, voters, reqs, decl, lastResp, admins, loginLog>>

\* vote.addAuditEntry(`Status changed to ${status}`, req.user._id, reason):
\* the push is saved as a $push on the stored array
PatchVoteAudit(k) ==
    /\ adm[k].pc = "addAuditEntry"
    /\ adm[k].op = "patchVote"
    /\ votes' = [votes EXCEPT ![adm[k].target] =
                    addAuditEntry(@, adm[k].body.status, adm[k].caller)]
    /\ adm' = [adm EXCEPT ![k].pc = "done", ![k].resp = RespVoteStatusUpdated]
    /\ UNCHANGED <<now, elections, candidates, voters, reqs, decl, lastResp, admins, loginLog>>

(***************************************************************************)
(* POST /api/auth/admin/login                                              *)
(***************************************************************************)
MaxLoginAttempts == 5   \* failed attempts that lock the account
LockTime == 2           \* 2 * 60 * 60 * 1000 ms, the clock ticking in hours

RespInvalidCredentials == Resp(401, "Invalid credentials")
RespLocked ==
    Resp(423, "Account is temporarily locked due to too many failed login attempts")
RespDeactivated == Resp(401, "Your account has been deactivated")
RespLoginOk == Resp(200, "Admin login successful")

\* adminSchema.virtual('isLocked') at time t
isLocked(ad, t) == ad.lockUntil # NoDate /\ ad.lockUntil > t

\* incLoginAttempts locking when the loaded count has reached the threshold
incLoginAttemptsLate(doc, stored, t) ==
    IF doc.lockUntil # NoDate /\ doc.lockUntil < t
    THEN [stored EXCEPT !.lockUntil = NoDate, !.loginAttempts = 1]
    ELSE IF doc.loginAttempts >= MaxLoginAttempts /\ ~isLocked(doc, t)
    THEN [stored EXCEPT !.loginAttempts = @ + 1, !.lockUntil = t + LockTime]
    ELSE [stored EXCEPT !.loginAttempts = @ + 1]

\* adminSchema.methods.incLoginAttempts at time t: the update is computed
\* from the loaded document doc and applied to the stored one ($set, $unset
\* and $inc of updateOne)
incLoginAttempts(doc, stored, t) ==
    IF doc.lockUntil # NoDate /\ doc.lockUntil < t
    THEN [stored EXCEPT !.lockUntil = NoDate, !.loginAttempts = 1]
    ELSE IF doc.loginAttempts + 1 >= MaxLoginAttempts /\ ~isLocked(doc, t)
    THEN [stored EXCEPT !.loginAttempts = @ + 1, !.lockUntil = t + LockTime]
    ELSE [stored EXCEPT !.loginAttempts = @ + 1]

\* a reset that unsets the lock and keeps the count
resetLockOnly(stored) ==
    [stored EXCEPT !.lockUntil = NoDate]

\* adminSchema.methods.resetLoginAttempts: $unset of both fields; a document
\* loaded without loginAttempts gets the schema default 0
resetLoginAttempts(stored) ==
    [stored EXCEPT !.loginAttempts = 0, !.lockUntil = NoDate]

\* the answer to a login request, as the client records it
LoginAnswer(k, resp) ==
    [admin |-> adm[k].target, correct |-> adm[k].body.correct, code |-> resp.code,
     askedAt |-> adm[k].body.askedAt, at |-> now]

\* Admin.findOne({email}), the lock and the isActive checks; correct tells
\* whether the request carries the password of the account
LoginFind(k, target, correct) ==
    /\ adm[k].pc = "idle"
    /\ \A j \in AdmIds : j < k => adm[j].pc # "idle"
    /\ Len(loginLog) < MaxLogins
    /\ LET ad == admins[target]
           rejected == IF ~ad.exists THEN RespInvalidCredentials
                       ELSE IF isLocked(ad, now) THEN RespLocked
                       ELSE IF ~ad.isActive THEN RespDeactivated
                       ELSE NoResp
       IN
         IF rejected # NoResp
         THEN /\ loginLog' = Append(loginLog,
                    [admin |-> target, correct |-> correct, code |-> rejected.code,
                     askedAt |-> now, at |-> now])
              /\ UNCHANGED adm
         ELSE /\ adm' = [adm EXCEPT ![k] = [IdleAdm EXCEPT !.pc = "comparePassword",
                            !.op = "login", !.target = target,
                            !.body = [correct |-> correct, askedAt |-> now],
                            !.doc = ad]]
              /\ UNCHANGED loginLog
    /\ UNCHANGED <<now, elections, candidates, voters, votes, reqs, decl,
                   lastResp, admins>>

\* comparePassword, then incLoginAttempts and 401, or resetLoginAttempts,
\* the save of lastLogin, logActivity and the token (lastLogin and the
\* activity log are not modelled)
LoginCompare(k) ==
    /\ adm[k].pc = "comparePassword"
    /\ LET a == adm[k].target
           resp == IF adm[k].body.correct THEN RespLoginOk ELSE RespInvalidCredentials
       IN
         /\ admins' =
              IF ~admins[a].exists THEN admins
              ELSE IF adm[k].body.correct
              THEN [admins EXCEPT ![a] = resetLoginAttempts(admins[a])]
              ELSE [admins EXCEPT ![a] = incLoginAttempts(adm[k].doc, admins[a], now)]
         /\ loginLog' = Append(loginLog, LoginAnswer(k, resp))
    /\ adm' = [adm EXCEPT ![k] = IdleAdm]
    /\ UNCHANGED <<now, elections, candidates, voters, votes, reqs, decl, lastResp>>

(***************************************************************************)
(* The system with two elections on the same schedule, three candidates    *)
(* and three voters                                                        *)
(***************************************************************************)
InitElections ==
    [e \in ElectionIds |->
        IF e = "e1" THEN NewElection(0, 1, 2, 3, 4, "active", 2)
        ELSE IF e = "e2" THEN NewElection(0, 1, 2, 3, 4, "active", 0)
        ELSE NoDoc]

\* c4 awaits approval, c5 has been deactivated, c6 does not exist
InitCandidates ==
    [c \in CandidateIds |->
        IF c \in {"c1", "c2"} THEN NewCandidate("e1", TRUE)
        ELSE IF c = "c3" THEN NewCandidate("e2", TRUE)
        ELSE IF c = "c4" THEN NewCandidate("e1", FALSE)
        ELSE IF c = "c5" THEN [NewCandidate("e1", TRUE) EXCEPT !.isActive = FALSE]
        ELSE NoDoc]

InitVoters ==
    [v \in VoterIds |-> NewVoter(v # "v3")]

\* the seeded super admin and commissioner, and an admin officer created by
\* POST /api/admin/admins
InitAdmins ==
    [a \in AdminIds |-> NewAdmin(AdminRole[a], AdminPermissions[a])]

Init ==
    /\ now = 1
    /\ elections = InitElections
    /\ candidates = InitCandidates
    /\ voters = InitVoters
    /\ votes = <<>>
    /\ reqs = [r \in ReqIds |-> IdleReq]
    /\ decl = IdleDecl
    /\ lastResp = NoLastResp
    /\ admins = InitAdmins
    /\ adm = [k \in AdmIds |-> IdleAdm]
    /\ loginLog = <<>>

CastRequest(Rs, Callers, Es, Cs) ==
    \E r \in Rs, caller \in Callers, e \in Es, c \in Cs :
        CastAuthenticate(r, caller, e, c)

CastSteps == \E r \in ReqIds : CastStep(r)

ElectionStatus(As, Es, Sts) ==
    \E a \in As, e \in Es, st \in Sts : UpdateElectionStatus(a, e, st)

Approval(As, Cs) ==
    \E a \in As, c \in Cs, b \in BOOLEAN : UpdateCandidateApproval(a, c, b)

VoteStatus(As, Sts) ==
    \E a \in As, i \in 1..Len(votes), st \in Sts : UpdateVoteStatus(a, i, st)

Declare(As, Es) ==
    \/ \E a \in As, e \in Es : DeclareStart(a, e)
    \/ DeclareResults
    \/ DeclareSave
    \/ DeclareFinish

\* Casting while election statuses change
Next ==
    \/ Tick
    \/ CastRequest(ReqIds, {"v1", "v2"}, {"e1", "e2"}, {"c1", "c3"})
    \/ CastSteps
    \/ ElectionStatus({"ec", "ao"}, {"e1"}, ElectionStatuses)

Spec == Init /\ [][Next]_vars

\* Casting alone, with every kind of caller, election and candidate
NextCast ==
    \/ Tick
    \/ CastRequest(ReqIds, VoterIds \cup {"sa"}, ElectionIds,
                   {"c1", "c3", "c4", "c5", "c6"})
    \/ CastSteps

SpecCast == Init /\ [][NextCast]_vars

\* Casting while vote statuses change (to two of the four statuses)
NextAudit ==
    \/ Tick
    \/ CastRequest(ReqIds, {"v1", "v2"}, {"e1", "e2"}, {"c1", "c3"})
    \/ CastSteps
    \/ VoteStatus({"ao", "ec"}, {"invalid", "disputed"})

SpecAudit == Init /\ [][NextAudit]_vars

\* Result declaration while votes are cast and the status changes
NextDeclare ==
    \/ Tick
    \/ CastRequest({1}, {"v1", "v2"}, {"e1"}, {"c1", "c2"})
    \/ CastSteps
    \/ ElectionStatus({"ec"}, {"e1"}, ElectionStatuses)
    \/ Declare({"ec", "ao"}, {"e1"})

SpecDeclare == Init /\ [][NextDeclare]_vars

\* Election creation, with every order of the five dates
Dates == 0..MaxDate

NextCreate ==
    \/ Tick
    \/ /\ lastResp = NoLastResp
       /\ \E a \in {"ec", "ao"}, rs \in Dates, re \in Dates, vs \in Dates,
            ve \in Dates, rd \in Dates : CreateElection(a, rs, re, vs, ve, rd)
    \/ Respond

SpecCreate == Init /\ [][NextCreate]_vars

\* The phase of one election as time passes.  The election has any dates
\* with regStart < regEnd <= voteStart < voteEnd <= resultDate (PUT
\* /api/elections/:id stores dates without a sequence check).
InitPhase ==
    /\ now = 0
    /\ \E rs \in Dates, re \in Dates, vs \in Dates, ve \in Dates, rd \in Dates :
          /\ rs < re /\ re <= vs /\ vs < ve /\ ve <= rd
          /\ elections = [e \in ElectionIds |->
                IF e = "e1" THEN NewElection(rs, re, vs, ve, rd, "upcoming", 0)
                ELSE NoDoc]
    /\ candidates = InitCandidates
    /\ voters = InitVoters
    /\ votes = <<>>
    /\ reqs = [r \in ReqIds |-> IdleReq]
    /\ decl = IdleDecl
    /\ lastResp = NoLastResp
    /\ admins = InitAdmins
    /\ adm = [k \in AdmIds |-> IdleAdm]
    /\ loginLog = <<>>

NextPhase ==
    \/ Tick
    \/ \E e \in {"e1", "e2"} : GetElection(e)

SpecPhase == InitPhase /\ [][NextPhase]_vars

\* Result declaration over a ledger of finished casts.  Voting in e1 is in
\* its last tick; each of the three voters has voted for c1, for c2 or not at
\* all, every cast has finished and has written its side effects.
StoredVote(voter, election, candidate, t, code) ==
    [NewVote(voter, election, candidate, t) EXCEPT
        !.voteHash = VoteHashOf(voter, candidate, election, t),
        !.verificationCode = code]

LedgerOf(choice) ==
    LET voted == SelectSeq(<<"v1", "v2", "v3">>, LAMBDA v : choice[v] # None)
    IN  [i \in 1..Len(voted) |->
            StoredVote(voted[i], "e1", choice[voted[i]], 2, i)]

InitWinner ==
    /\ now = 3
    /\ \E choice \in [VoterIds -> {"c1", "c2", None}] :
          /\ votes = LedgerOf(choice)
          /\ voters = [v \in VoterIds |->
                IF choice[v] = None THEN NewVoter(TRUE)
                ELSE [NewVoter(TRUE) EXCEPT !.hasVoted = TRUE,
                                            !.votedElections = <<"e1">>]]
          /\ candidates = [c \in CandidateIds |->
                IF c \in {"c1", "c2"}
                THEN [InitCandidates[c] EXCEPT !.voteCount =
                        Cardinality({v \in VoterIds : choice[v] = c})]
                ELSE InitCandidates[c]]
          /\ elections = [InitElections EXCEPT !["e1"].totalVotesCast =
                        Cardinality({v \in VoterIds : choice[v] # None})]
    /\ reqs = [r \in ReqIds |-> IdleReq]
    /\ decl = IdleDecl
    /\ lastResp = NoLastResp
    /\ admins = InitAdmins
    /\ adm = [k \in AdmIds |-> IdleAdm]
    /\ loginLog = <<>>

NextWinner ==
    \/ Tick
    \/ VoteStatus({"ao"}, {"invalid", "valid"})
    \/ Declare({"ec"}, {"e1"})

SpecWinner == InitWinner /\ [][NextWinner]_vars

\* Creation and declaration requests of every kind of caller, over a ledger
\* of finished casts
CreateBodies == {<<0, 1, 2, 3, 4>>, <<1, 2, 3, 4, 5>>, <<2, 1, 3, 4, 4>>}

NextRoles ==
    \/ Tick
    \/ \E a \in {"sa", "ec", "ao", "v1"}, d \in CreateBodies :
            CreateElection(a, d[1], d[2], d[3], d[4], d[5])
    \/ Respond
    \/ Declare({"sa", "ec", "ao", "v1"}, {"e1"})

SpecRoles == InitWinner /\ [][NextRoles]_vars

\* Public results requests around the declaration of e1, over a ledger of
\* finished casts: the commissioner declares, the status is changed by hand
NextResults ==
    \/ Tick
    \/ \E e \in {"e1", "e3"} : GetResults(e)
    \/ Respond
    \/ ElectionStatus({"ec"}, {"e1"}, {"active", "completed", "cancelled"})
    \/ Declare({"ec"}, {"e1"})

SpecResults == InitWinner /\ [][NextResults]_vars

\* Updates of the dates of e1 while its status changes
UpdateBodies ==
    {[votingEndDate |-> 4], [registrationStartDate |-> 1, resultDate |-> 3]}

UpdateElection(Ks, As, Es) ==
    \/ \E k \in Ks, a \in As, e \in Es, body \in UpdateBodies :
            UpdateElectionFind(k, a, e, body)
    \/ \E k \in Ks : UpdateElectionWrite(k)

NextUpdate ==
    \/ Tick
    \/ ElectionStatus({"ec"}, {"e1"}, ElectionStatuses)
    \/ UpdateElection({1}, {"ec", "ao"}, {"e1", "e3"})
    \/ AdmFinish(1)

SpecUpdate == Init /\ [][NextUpdate]_vars

\* One cast of v1 or v2 for c1 in e1 while c1 and v1 are deleted
DeleteCandidate(Ks, As, Cs) ==
    \/ \E k \in Ks, a \in As, c \in Cs : DeleteCandidateFind(k, a, c)
    \/ \E k \in Ks : DeleteCandidateCheck(k)
    \/ \E k \in Ks : DeleteCandidateSave(k)
    \/ \E k \in Ks : DeleteCandidateRemove(k)

DeleteVoter(Ks, As, Vs) ==
    \/ \E k \in Ks, a \in As, v \in Vs : DeleteVoterFind(k, a, v)
    \/ \E k \in Ks : DeleteVoterRemove(k)

NextDelete ==
    \/ Tick
    \/ CastRequest({1}, {"v1", "v2"}, {"e1"}, {"c1"})
    \/ CastSteps
    \/ DeleteCandidate({1}, {"ec", "ao"}, {"c1", "c6"})
    \/ DeleteVoter({2}, {"ec", "ao"}, {"v1"})
    \/ \E k \in AdmIds : AdmFinish(k)

SpecDelete == Init /\ [][NextDelete]_vars

\* Two admin-panel requests at a time on the accounts of the super admin
\* and of the commissioner
AdminBodies ==
    {[role |-> "super_admin"], [role |-> "admin_officer"], [isActive |-> FALSE]}

NextAdmins ==
    \/ \E k \in AdmIds, a \in AdminIds, t \in {"sa", "ec"}, body \in AdminBodies :
            UpdateAdminFind(k, a, t, body)
    \/ \E k \in AdmIds : UpdateAdminWrite(k)
    \/ \E k \in AdmIds, a \in AdminIds, t \in {"sa", "ec"} : DeleteAdminFind(k, a, t)
    \/ \E k \in AdmIds : DeleteAdminRemove(k)
    \/ \E k \in AdmIds : AdmFinish(k)

SpecAdmins == Init /\ [][NextAdmins]_vars

\* Updates of the dates of e1 while its status is moved between upcoming
\* and registration only
NextSchedule ==
    \/ Tick
    \/ ElectionStatus({"ec"}, {"e1"}, {"upcoming", "registration"})
    \/ UpdateElection({1}, {"ec", "ao"}, {"e1", "e3"})
    \/ AdmFinish(1)

SpecSchedule == Init /\ [][NextSchedule]_vars

\* Candidate administration by the commissioner and by an admin officer
\* who has been given the permission manage_candidates (PUT
\* /api/admin/admins/:id), before and during the voting of e1
InitNominate ==
    /\ now = 1
    /\ elections = InitElections
    /\ candidates = InitCandidates
    /\ voters = InitVoters
    /\ votes = <<>>
    /\ reqs = [r \in ReqIds |-> IdleReq]
    /\ decl = IdleDecl
    /\ lastResp = NoLastResp
    /\ admins = [InitAdmins EXCEPT
                    !["ao"].permissions = @ \cup {"manage_candidates"}]
    /\ adm = [k \in AdmIds |-> IdleAdm]
    /\ loginLog = <<>>

CandidateBodies ==
    {[election |-> "e1"],
     [election |-> "e1", isApproved |-> TRUE, voteCount |-> 2],
     [election |-> "e3", voteCount |-> -1]}

CandidateUpdates ==
    {[politicalParty |-> "p2"],
     [politicalParty |-> "p2", election |-> "e1"],
     [isApproved |-> TRUE, voteCount |-> 3]}

UpdateCandidate(Ks, As, Cs) ==
    \/ \E k \in Ks, a \in As, c \in Cs, body \in CandidateUpdates :
            UpdateCandidateFind(k, a, c, body)
    \/ \E k \in Ks : UpdateCandidateCheck(k)
    \/ \E k \in Ks : UpdateCandidateWrite(k)

NextNominate ==
    \/ Tick
    \/ \E a \in {"ec", "ao", "v1"}, body \in CandidateBodies :
            CreateCandidate(1, a, body)
    \/ UpdateCandidate({1}, {"ec", "ao"}, {"c4", "c6"})
    \/ \E a \in {"ec", "ao", "v1"}, c \in {"c4", "c6"}, b \in BOOLEAN :
            ApproveCandidate(1, a, c, b)
    \/ DeleteCandidateFind(1, "ao", "c4")
    \/ DeleteCandidateCheck(1)
    \/ DeleteCandidateRemove(1)
    \/ AdmFinish(1)

SpecNominate == InitNominate /\ [][NextNominate]_vars

\* Two status requests at a time on a ledger of two finished casts, while
\* the third voter casts
InitLedger ==
    /\ InitWinner
    /\ votes = LedgerOf([v1 |-> "c1", v2 |-> "c2", v3 |-> None])

PatchVote(Ks, As, Is, Sts) ==
    \/ \E k \in Ks, a \in As, i \in Is, st \in Sts : PatchVoteFind(k, a, i, st)
    \/ \E k \in Ks : PatchVoteSave(k)
    \/ \E k \in Ks : PatchVoteAudit(k)

NextLedger ==
    \/ CastRequest({1}, {"v3"}, {"e1"}, {"c1"})
    \/ CastSteps
    \/ PatchVote(AdmIds, {"ao", "ec"}, {1}, {"invalid", "valid"})
    \/ \E k \in AdmIds : AdmFinish(k)

SpecLedger == InitLedger /\ [][NextLedger]_vars

\* Declaration at the last instant of the voting window, on a ledger of two
\* finished casts, while the third voter casts and the status is patched
NextReopen ==
    \/ Tick
    \/ CastRequest({1}, {"v3"}, {"e1"}, {"c1"})
    \/ CastSteps
    \/ ElectionStatus({"ec"}, {"e1"}, {"active", "completed"})
    \/ Declare({"ec"}, {"e1"})

SpecReopen == InitLedger /\ [][NextReopen]_vars

\* Public reads before the result date of e1 and e2, over every ledger of
\* finished casts
NextPublic ==
    \/ Tick
    \/ GetPublic("getElections", None)
    \/ \E e \in {"e1", "e3"} : GetPublic("getElection", e)
    \/ \E e \in {"e1", None} : GetPublic("getCandidates", e)
    \/ \E e \in {"e1"} : GetPublic("getCandidatesByElection", e)
    \/ \E c \in {"c1", "c4"} : GetPublic("getCandidate", c)
    \/ \E e \in {"e1", "e3"} : GetResults(e)
    \/ Respond

SpecPublic == InitWinner /\ [][NextPublic]_vars

\* Login requests for the commissioner's account, one after the other
NextLogin ==
    \/ Tick
    \/ \E correct \in BOOLEAN : LoginFind(1, "ec", correct)
    \/ LoginCompare(1)

SpecLogin == Init /\ [][NextLogin]_vars

(***************************************************************************)
(* Properties                                                              *)
(***************************************************************************)
InFlight(r) == reqs[r].pc \notin {"idle", "done"}
PastChecks(r) ==
    reqs[r].pc \in {"createVote", "incrementVote", "updateVoter",
                    "incElection", "updateTurnout"}

\* C1: in every reachable state the ledger holds at most one vote for each
\* (voter, election) pair.
C1_OneVotePerVoterElection ==
    \A i, j \in 1..Len(votes) :
        (votes[i].voter = votes[j].voter /\ votes[i].election = votes[j].election)
            => i = j

\* a second cast for a pair was rejected by the index, and the stored vote of
\* the pair has had its status changed
C1_Witness ==
    \E r \in ReqIds, i \in 1..Len(votes) :
        /\ reqs[r].resp = RespDuplicateKey
        /\ votes[i].voter = reqs[r].caller
        /\ votes[i].election = reqs[r].electionId
        /\ votes[i].status = "disputed"

\* the responses of a cast request that no precondition rejected
PreconditionFailures ==
    {RespVoterRequired, RespUnauthenticated, RespElectionNotFound,
     RespVotingNotActive, RespCandidateNotFound, RespNotVerified, RespNotActive}

\* C2: of two finished cast requests for one (voter, election) pair that no
\* other precondition rejected, exactly one succeeded and the other got the
\* already-voted response of the pre-check.
C2_OneSucceedsOthersAlreadyVoted ==
    \A r, q \in ReqIds :
        (/\ r # q
         /\ reqs[r].pc = "done" /\ reqs[q].pc = "done"
         /\ reqs[r].caller = reqs[q].caller
         /\ reqs[r].electionId = reqs[q].electionId
         /\ reqs[r].resp \notin PreconditionFailures
         /\ reqs[q].resp \notin PreconditionFailures)
        => {reqs[r].resp, reqs[q].resp} = {RespCastOk, RespAlreadyVoted}

\* C3: whenever a vote is recorded, the time is within the voting window of
\* its election and the stored status of the election is 'active'.
C3_RecordedOnlyWhileVotingActive ==
    [][Len(votes') > Len(votes) =>
          isVotingActive(elections[votes'[Len(votes')].election], now)]_vars

\* C4: a cast request gets past the candidate check, and succeeds, only with
\* a candidate that exists, belongs to the named election, is active and is
\* approved; a cast naming a candidate of another election never succeeds and
\* the ledger holds no vote for a candidate of another election.
C4_CastNeedsEligibleCandidate ==
    /\ \A r \in ReqIds :
          PastChecks(r) => /\ reqs[r].candidate.exists
                           /\ reqs[r].candidate.election = reqs[r].electionId
                           /\ reqs[r].candidate.isActive
                           /\ reqs[r].candidate.isApproved
    /\ \A r \in ReqIds :
          reqs[r].resp = RespCastOk =>
              LET cand == candidates[reqs[r].candidateId] IN
                  /\ cand.exists /\ cand.election = reqs[r].electionId
                  /\ cand.isActive /\ cand.isApproved
    /\ \A i \in 1..Len(votes) :
          /\ candidates[votes[i].candidate].exists
          /\ candidates[votes[i].candidate].election = votes[i].election

\* a cast for election e1 naming c3, a candidate of e2, was answered 404 while
\* another cast succeeded
C4_Witness ==
    \E r, q \in ReqIds :
        /\ reqs[r].pc = "done" /\ reqs[r].resp = RespCandidateNotFound
        /\ reqs[r].electionId = "e1" /\ reqs[r].candidateId = "c3"
        /\ candidates["c3"].exists /\ candidates["c3"].election = "e2"
        /\ reqs[q].resp = RespCastOk

\* C5: when no cast request is in progress, every candidate's voteCount and
\* every election's totalVotesCast equal the number of votes that reference
\* the candidate and the election.
C5_CountersMatchLedger ==
    (\A r \in ReqIds : ~InFlight(r)) =>
        /\ \A c \in CandidateIds :
              candidates[c].exists => candidates[c].voteCount = VotesForCandidate(c)
        /\ \A e \in ElectionIds :
              elections[e].exists => elections[e].totalVotesCast = VotesForElection(e)

\* C6: recomputing the hash of every stored vote from its stored fields gives
\* the stored voteHash.
C6_VoteHashIntegrity ==
    \A i \in 1..Len(votes) : verifyIntegrity(votes[i])

\* a stored vote whose status was changed and whose audit log has an entry
C6_Witness ==
    \E i \in 1..Len(votes) :
        /\ votes[i].status = "invalid"
        /\ Len(votes[i].auditLog) = 1
        /\ now > votes[i].votedAt

Phases == {"upcoming", "registration", "waiting", "voting", "counting", "completed"}

PhaseRank(p) ==
    CASE p = "upcoming" -> 0
      [] p = "registration" -> 1
      [] p = "waiting" -> 2
      [] p = "voting" -> 3
      [] p = "counting" -> 4
      [] p = "completed" -> 5

OrderedDates(el) ==
    /\ el.registrationStartDate < el.registrationEndDate
    /\ el.registrationEndDate <= el.votingStartDate
    /\ el.votingStartDate < el.votingEndDate
    /\ el.votingEndDate <= el.resultDate

\* C7: for an election with ordered dates the phase is one of the six phases
\* at every time, and it never goes back as time advances.
C7_PhaseTotalAndMonotonic ==
    \A e \in ElectionIds :
        (elections[e].exists /\ OrderedDates(elections[e])) =>
            \A t1, t2 \in 0..(MaxTime + 1) :
                /\ currentPhase(elections[e], t1) \in Phases
                /\ t1 < t2 => PhaseRank(currentPhase(elections[e], t1))
                                <= PhaseRank(currentPhase(elections[e], t2))

\* the phase of an election with a gap between registration and voting was
\* read inside the gap
C7_Witness ==
    /\ lastResp.op = "getElection"
    /\ lastResp.currentPhase = "waiting"
    /\ elections["e1"].registrationEndDate < now
    /\ now < elections["e1"].votingStartDate

\* C8: a declare-results request that arrives before votingEndDate while the
\* status is not 'completed' is answered with an error at once and changes no
\* election.
C8_EarlyDeclareRejected ==
    [][(/\ decl.pc = "idle" /\ decl'.pc # "idle"
        /\ elections[decl'.electionId].exists
        /\ now < elections[decl'.electionId].votingEndDate
        /\ elections[decl'.electionId].status # "completed")
       => (/\ decl'.pc = "done"
           /\ decl'.resp.code \in {400, 403}
           /\ elections' = elections)]_vars

\* an authorised declare request was refused as too early
C8_Witness ==
    /\ decl.pc = "done"
    /\ decl.resp = RespTooEarly
    /\ IsCommissionerOrSuper(decl.admin)
    /\ Len(votes) > 0

Clamp(p) == IF p < 0 THEN 0 ELSE IF p > 100 THEN 100 ELSE p

\* C9: the stored turnoutPercentage is within [0, 100] in every state, and
\* after a successful cast it is the percentage of the stored totalVotesCast
\* among the stored totalRegisteredVoters, clamped to [0, 100].
C9_TurnoutFollowsCounters ==
    /\ [](\A e \in ElectionIds :
            elections[e].exists => TurnoutValid(elections[e].turnoutPercentage))
    /\ [][\A r \in ReqIds :
            (reqs[r].pc = "updateTurnout" /\ reqs'[r].resp = RespCastOk) =>
                LET el == elections'[reqs[r].electionId] IN
                    el.totalRegisteredVoters > 0 =>
                        el.turnoutPercentage =
                            Clamp(TurnoutOf(el.totalVotesCast, el.totalRegisteredVoters))]_vars

CreateAnswered ==
    /\ lastResp.op = "createElection"
    /\ lastResp.admin \in AdminIds
    /\ IsCommissionerOrSuper(lastResp.admin)

ValidVotes(e, c) ==
    Cardinality({i \in 1..Len(votes) :
        /\ votes[i].election = e /\ votes[i].candidate = c
        /\ votes[i].status = "valid"})

RoleAllows(caller) ==
    /\ caller \in AdminIds
    /\ admins[caller].exists
    /\ admins[caller].role \in {"super_admin", "election_commissioner"}

\* C12: a creation or declaration request of a caller who is not an admin
\* with role super_admin or election_commissioner is answered 403 and changes
\* no election; a caller with one of the two roles is not answered 403; an
\* election is created or declared only by a request of such a caller.
C12_OnlyCommissionerOrSuper ==
    /\ [][(lastResp'.op = "createElection" /\ lastResp' # lastResp) =>
            /\ ~RoleAllows(lastResp'.admin) =>
                  (lastResp'.code = 403 /\ elections' = elections)
            /\ RoleAllows(lastResp'.admin) => lastResp'.code # 403
            /\ elections' # elections => RoleAllows(lastResp'.admin)]_vars
    /\ [][(decl.pc = "idle" /\ decl'.pc # "idle") =>
            /\ ~RoleAllows(decl'.admin) =>
                  /\ decl'.pc = "done" /\ decl'.resp.code = 403
                  /\ elections' = elections
            /\ RoleAllows(decl'.admin) => decl'.resp.code # 403]_vars
    /\ [][(decl.pc = "save" /\ decl'.pc = "done") => RoleAllows(decl.admin)]_vars

\* after the commissioner declared the results of e1, the declaration request
\* of the admin officer is refused, and so was the creation request of a voter
C12_Witness ==
    /\ elections["e1"].isResultDeclared
    /\ decl.pc = "done" /\ decl.admin = "ao" /\ decl.resp = RespForbiddenDeclare
    /\ lastResp.op = "createElection" /\ lastResp.admin = "v1"
    /\ lastResp.code = 403

\* a login request with a wrong password that got past the lock check
WrongPassword(x) == ~x.correct /\ x.code = 401

\* the requests i-5 .. i-1 are five wrong passwords in a row, and the run
\* does not continue an earlier run of wrong passwords
FiveFailuresBefore(i) ==
    /\ i > MaxLoginAttempts
    /\ \A j \in (i - MaxLoginAttempts)..(i - 1) : WrongPassword(loginLog[j])
    /\ i - MaxLoginAttempts > 1 => ~WrongPassword(loginLog[i - MaxLoginAttempts - 1])

\* C13: after five consecutive wrong passwords for an account, every login
\* request made before the lock expires, two hours after the fifth failure,
\* is answered 423 and none is answered with a token, whatever its password.
C13_LockedAfterFiveFailures ==
    \A i \in 1..Len(loginLog) :
        FiveFailuresBefore(i) =>
            \A m \in i..Len(loginLog) :
                loginLog[m].askedAt < loginLog[i - 1].at + LockTime
                    => loginLog[m].code = 423

\* five wrong passwords, then the correct password is answered 423, and
\* after the lock has expired the correct password is answered 200
C13_Witness ==
    /\ Len(loginLog) >= 7
    /\ \A j \in 1..5 : WrongPassword(loginLog[j])
    /\ loginLog[6].correct /\ loginLog[6].code = 423
    /\ loginLog[7].correct /\ loginLog[7].code = 200

\* C14: a public results request for an election, made before its
\* resultDate while its results have not been declared, is answered 403 and
\* the response holds no per-candidate count and no total.
C14_ResultsRefusedBeforeDeclaration ==
    [][\A e \in ElectionIds :
        (/\ lastResp = NoLastResp
         /\ lastResp'.op = "getResults"
         /\ lastResp'.id = e
         /\ elections[e].exists
         /\ now < elections[e].resultDate
         /\ ~elections[e].isResultDeclared)
        => (/\ lastResp'.code = 403
            /\ lastResp'.results = {}
            /\ lastResp'.totalVotes = 0)]_vars

\* a request for e1 is refused before the result date although the ledger
\* holds valid votes of e1 and the status has been set to completed by hand
C14_Witness ==
    /\ lastResp.op = "getResults"
    /\ lastResp.id = "e1"
    /\ lastResp.code = 403
    /\ now < elections["e1"].resultDate
    /\ ~elections["e1"].isResultDeclared
    /\ elections["e1"].status = "completed"
    /\ ResultCandidates("e1") # {}

\* C15: once the status of an election is active, completed or cancelled,
\* no step changes any of its five scheduling timestamps.
C15_DatesFrozenOnceActive ==
    [][\A e \in ElectionIds :
        (/\ elections[e].exists
         /\ elections[e].status \in {"active", "completed", "cancelled"}
         /\ elections'[e].exists)
        => \A f \in DateFields : elections'[e][f] = elections[e][f]]_vars

\* C16: in every reachable state the candidate that a vote of the ledger
\* names exists in the candidates collection.
C16_VotedCandidateExists ==
    \A i \in 1..Len(votes) : candidates[votes[i].candidate].exists

\* C17: in every reachable state the voter that a vote of the ledger names
\* exists in the voters collection.
C17_VotedVoterExists ==
    \A i \in 1..Len(votes) : voters[votes[i].voter].exists

\* C18: no step deletes an admin whose role is super_admin, no step of a
\* request of another admin modifies such an admin, and no step of an
\* admin's own request deletes that admin.
C18_SuperAdminProtected ==
    [][\A t \in AdminIds :
        /\ (admins[t].exists /\ admins[t].role = "super_admin")
              => /\ admins'[t].exists
                 /\ \A k \in AdmIds :
                      (adm'[k] # adm[k] /\ admins'[t] # admins[t])
                          => adm[k].caller = t
        /\ (admins[t].exists /\ ~admins'[t].exists)
              => \A k \in AdmIds : adm'[k] # adm[k] => adm[k].caller # t]_vars

\* the responses that reject a cast request: a failed precondition, the
\* already-voted pre-check, the unique index of the insert
CastRejections == PreconditionFailures \cup {RespAlreadyVoted, RespDuplicateKey}

StoredState == <<elections, candidates, voters, votes>>

\* C19: a cast request rejected by a precondition or by the uniqueness
\* constraint of the Vote insert changes no stored state: every step a
\* request takes up to the candidate and voter checks, and the step that
\* answers with a rejection, leaves the elections, the candidates, the
\* voters and the ledger as they are, and a rejection is answered by no
\* later step.
C19_RejectedCastChangesNothing ==
    [][\A r \in ReqIds :
        /\ (/\ reqs'[r] # reqs[r]
            /\ reqs[r].pc \in {"idle", "findElection", "hasVoted", "findCandidate"})
              => UNCHANGED StoredState
        /\ (reqs'[r] # reqs[r] /\ reqs'[r].resp \in CastRejections)
              => /\ UNCHANGED StoredState
                 /\ reqs[r].pc \in {"idle", "findElection", "hasVoted",
                                     "findCandidate", "createVote"}]_vars

\* the insert of one of two racing casts of a voter was rejected by the
\* unique index; the ledger and the counters hold the other cast alone
C19_Witness ==
    \E r, q \in ReqIds :
        /\ reqs[r].pc = "done" /\ reqs[r].resp = RespDuplicateKey
        /\ reqs[q].pc = "done" /\ reqs[q].resp = RespCastOk
        /\ reqs[q].caller = reqs[r].caller
        /\ Len(votes) = 1
        /\ candidates[reqs[q].candidateId].voteCount = 1
        /\ elections[reqs[q].electionId].totalVotesCast = 1
        /\ voters[reqs[q].caller].votedElections = <<reqs[q].electionId>>

InHistory(v, e) ==
    \E j \in 1..Len(voters[v].votedElections) : voters[v].votedElections[j] = e

\* C20: the Vote insert and its side effects are one atomic unit.  When no
\* cast request is in progress, every vote of the ledger has its side
\* effects in the stored documents that still exist: its voter has hasVoted
\* set and the election in its history, its candidate's voteCount and its
\* election's totalVotesCast count it; and a cast answered with success has
\* marked its voter.
C20_CastSideEffectsAtomic ==
    (\A r \in ReqIds : ~InFlight(r)) =>
        /\ \A i \in 1..Len(votes) :
              LET v == votes[i].voter
                  c == votes[i].candidate
                  e == votes[i].election
              IN  /\ voters[v].exists => (voters[v].hasVoted /\ InHistory(v, e))
                  /\ candidates[c].exists =>
                        candidates[c].voteCount = VotesForCandidate(c)
                  /\ elections[e].exists =>
                        elections[e].totalVotesCast = VotesForElection(e)
        /\ \A r \in ReqIds :
              reqs[r].resp = RespCastOk =>
                  /\ voters[reqs[r].caller].exists
                  /\ voters[reqs[r].caller].hasVoted
                  /\ InHistory(reqs[r].caller, reqs[r].electionId)

\* C21: in every reachable state every stored election has
\* regStart < regEnd <= voteStart < voteEnd <= resultDate.
C21_StoredDatesOrdered ==
    \A e \in ElectionIds : elections[e].exists => OrderedDates(elections[e])

\* C22: completed and cancelled are terminal: no step changes the stored
\* status of an election that is completed or cancelled.
C22_TerminalStatuses ==
    [][\A e \in ElectionIds :
        (/\ elections[e].exists
         /\ elections[e].status \in {"completed", "cancelled"}
         /\ elections'[e].exists)
        => elections'[e].status = elections[e].status]_vars

\* C23: result declaration is idempotent: no step changes the stored
\* winner, resultDeclaredAt or isResultDeclared of an election whose results
\* have been declared.
C23_DeclareIdempotent ==
    [][\A e \in ElectionIds :
        (/\ elections[e].exists
         /\ elections[e].isResultDeclared
         /\ elections'[e].exists)
        => /\ elections'[e].isResultDeclared
           /\ elections'[e].winner = elections[e].winner
           /\ elections'[e].resultDeclaredAt = elections[e].resultDeclaredAt]_vars

\* C24: the failed-login counter counts consecutive failures only.  A login
\* answered 200 leaves the counter at zero and the lock unset; whenever a
\* login is answered 423, at least five wrong passwords lie between it and
\* each earlier login answered 200; and a login for an active account whose lock is unset or has
\* expired is not refused as locked, so with the correct password it is
\* answered 200.
C24_CounterCountsConsecutiveFailures ==
    /\ []((/\ \A k \in AdmIds : adm[k].pc = "idle"
           /\ Len(loginLog) > 0
           /\ loginLog[Len(loginLog)].code = 200)
            => LET ad == admins[loginLog[Len(loginLog)].admin] IN
                 ad.loginAttempts = 0 /\ ad.lockUntil = NoDate)
    /\ []((Len(loginLog) > 0 /\ loginLog[Len(loginLog)].code = 423) =>
            \A s \in 1..Len(loginLog) :
                loginLog[s].code = 200 =>
                    Cardinality({j \in (s + 1)..Len(loginLog) :
                                    WrongPassword(loginLog[j])}) >= MaxLoginAttempts)
    /\ [][\A k \in AdmIds :
            /\ (/\ adm[k].pc = "idle"
                /\ Len(loginLog') = Len(loginLog) + 1
                /\ loginLog'[Len(loginLog')].code = 423)
                  => LET ad == admins[loginLog'[Len(loginLog')].admin] IN
                       ad.lockUntil # NoDate /\ ad.lockUntil > now
            /\ (adm[k].pc = "comparePassword" /\ adm[k].body.correct
                    /\ adm'[k].pc = "idle")
                  => /\ loginLog'[Len(loginLog')].code = 200
                     /\ admins'[adm[k].target].loginAttempts = 0
                     /\ admins'[adm[k].target].lockUntil = NoDate]_vars

\* four wrong passwords, a successful login, then a wrong password: the
\* fifth failure overall counts as the first and the account is not locked
C24_Witness ==
    /\ Len(loginLog) = 6
    /\ \A j \in 1..4 : WrongPassword(loginLog[j])
    /\ loginLog[5].correct /\ loginLog[5].code = 200
    /\ WrongPassword(loginLog[6])
    /\ admins["ec"].loginAttempts = 1
    /\ admins["ec"].lockUntil = NoDate

\* C25: a candidate is approved only by an action of a super_admin or an
\* election_commissioner: a created candidate is approved exactly when its
\* creator has one of the two roles, and the isApproved of a stored
\* candidate changes only in an approval request of an admin with one of
\* the two roles, answered 200.
C25_ApprovalOnlyByCommissionerOrSuper ==
    [][\A c \in CandidateIds :
        /\ (~candidates[c].exists /\ candidates'[c].exists) =>
              \E k \in AdmIds :
                  /\ adm[k].pc = "idle"
                  /\ adm'[k].op = "createCandidate"
                  /\ adm'[k].target = c
                  /\ candidates'[c].isApproved
                        = (admins[adm'[k].caller].role
                              \in {"super_admin", "election_commissioner"})
        /\ (/\ candidates[c].exists /\ candidates'[c].exists
            /\ candidates'[c].isApproved # candidates[c].isApproved) =>
              \E k \in AdmIds :
                  /\ adm[k].pc = "idle"
                  /\ adm'[k].op = "approveCandidate"
                  /\ adm'[k].target = c
                  /\ adm'[k].resp.code = 200
                  /\ adm'[k].caller \in AdminIds
                  /\ admins[adm'[k].caller].role
                        \in {"super_admin", "election_commissioner"}]_vars

\* candidate c6 was created by the admin officer with isApproved: true in
\* the body and is stored unapproved, the officer's approval request was
\* refused, and c4 has been approved
C25_Witness ==
    /\ candidates["c6"].exists
    /\ ~candidates["c6"].isApproved
    /\ candidates["c4"].isApproved
    /\ adm[1].op = "approveCandidate"
    /\ adm[1].caller = "ao"
    /\ adm[1].target = "c6"
    /\ adm[1].resp = RespForbiddenApproval

\* the election of stored candidate c exists and is accepting votes
VotingOpenFor(c) ==
    /\ candidates[c].exists
    /\ elections[candidates[c].election].exists
    /\ isVotingActive(elections[candidates[c].election], now)

\* C26: while the voting of a candidate's election is open, no step of a
\* candidate update or delete request changes or removes the candidate, and
\* none answers such a request with success.
C26_NoCandidateMutationDuringVoting ==
    [][\A k \in AdmIds :
        (/\ adm'[k] # adm[k]
         /\ adm'[k].op \in {"updateCandidate", "deleteCandidate"}
         /\ adm'[k].target \in CandidateIds
         /\ VotingOpenFor(adm'[k].target))
        => /\ candidates'[adm'[k].target] = candidates[adm'[k].target]
           /\ adm'[k].resp.code # 200]_vars

\* C28: a candidate's voteCount and an election's totalVotesCast are 0 in a
\* created record, and afterwards they change only in a step of a cast
\* request.
C28_TalliesWrittenByCastOnly ==
    [][/\ \A c \in CandidateIds :
            /\ (~candidates[c].exists /\ candidates'[c].exists)
                  => candidates'[c].voteCount = 0
            /\ (/\ candidates[c].exists /\ candidates'[c].exists
                /\ candidates'[c].voteCount # candidates[c].voteCount)
                  => \E r \in ReqIds : reqs[r].pc = "incrementVote"
                                       /\ reqs'[r].pc = "updateVoter"
       /\ \A e \in ElectionIds :
            /\ (~elections[e].exists /\ elections'[e].exists)
                  => elections'[e].totalVotesCast = 0
            /\ (/\ elections[e].exists /\ elections'[e].exists
                /\ elections'[e].totalVotesCast # elections[e].totalVotesCast)
                  => \E r \in ReqIds : reqs[r].pc = "incElection"
                                       /\ reqs'[r].pc = "updateTurnout"]_vars

\* C27: the ledger is append-only: no step removes a vote or changes the
\* voter, election, candidate, votedAt, voteHash or verificationCode of a
\* stored vote, and the audit log of a stored vote only grows at its end.
C27_LedgerAppendOnly ==
    [][/\ Len(votes') >= Len(votes)
       /\ \A i \in 1..Len(votes) :
            /\ votes'[i].voter = votes[i].voter
            /\ votes'[i].election = votes[i].election
            /\ votes'[i].candidate = votes[i].candidate
            /\ votes'[i].votedAt = votes[i].votedAt
            /\ votes'[i].voteHash = votes[i].voteHash
            /\ votes'[i].verificationCode = votes[i].verificationCode
            /\ Len(votes'[i].auditLog) >= Len(votes[i].auditLog)
            /\ SubSeq(votes'[i].auditLog, 1, Len(votes[i].auditLog))
                  = votes[i].auditLog]_vars

\* the first vote has had its status changed twice and holds both audit
\* entries in order, and a third vote has joined the ledger
C27_Witness ==
    /\ Len(votes) = 3
    /\ Len(votes[1].auditLog) = 2
    /\ votes[1].auditLog[1].action = "invalid"
    /\ votes[1].auditLog[2].action = "valid"
    /\ votes[1].status = "valid"
    /\ verifyIntegrity(votes[1])

\* C29: once the results of an election are declared no Vote is added for
\* that election, whatever status updates follow the declaration.
C29_NoVoteAfterDeclaration ==
    [][Len(votes') > Len(votes)
        => ~elections[votes'[Len(votes')].election].isResultDeclared]_vars

\* the collections as they are when no vote has been cast
NoVotesCandidates ==
    [c \in CandidateIds |->
        IF candidates[c].exists THEN [candidates[c] EXCEPT !.voteCount = 0]
        ELSE candidates[c]]

NoVotesElections ==
    [e \in ElectionIds |->
        IF elections[e].exists
        THEN [elections[e] EXCEPT !.totalVotesCast = 0, !.turnoutPercentage = 0]
        ELSE elections[e]]

PublicOps ==
    {"getElections", "getElection", "getCandidates", "getCandidatesByElection",
     "getCandidate"}

\* C30: while the results of no election are available (time before the
\* resultDate, results not declared), the response of every unauthenticated
\* read is the one the same request gets when no vote has been cast: the
\* response does not depend on the votes cast.
C30_PublicReadsHideVotes ==
    [][(/\ lastResp = NoLastResp
        /\ lastResp' # NoLastResp
        /\ \A e \in ElectionIds :
              elections[e].exists => ResultsNotYetAvailable(elections[e], now))
       => IF lastResp'.op \in PublicOps
          THEN lastResp' = PublicRead([op |-> lastResp'.op, id |-> lastResp'.id],
                                      NoVotesElections, NoVotesCandidates, now)
          ELSE /\ lastResp'.results = {}
               /\ lastResp'.totalVotes = 0
               /\ lastResp'.code \in {403, 404}]_vars

====
